---- MODULE Spec2Model ----
(***************************************************************************)
(* Hardware-sequencing layer of beaglebone-monitor: the 74HC595 shift      *)
(* register chain, the 74HC4067 channel selector, and the heartbeat /      *)
(* output logic of the OutputBoard, InputBoard and IOBoard probes.         *)
(*                                                                         *)
(* JavaScript arrays are modelled as sequences (index i of the array is    *)
(* element i+1 of the sequence).  Every asynchronous bonescript call is    *)
(* one pending call whose completion is a separate action that draws the   *)
(* outcome (ok or error) nondeterministically.                             *)
(***************************************************************************)
EXTENDS Integers, Sequences, FiniteSets, TLC

VARIABLES
  board,        \* which device/probe this behaviour drives
  ic595Array,   \* the array object handed to the IC74HC595 as its values
  first595,     \* IOBoard: the one-element array of the controller chip
  valuesRef,    \* which array object IC74HC595.values refers to
  sh,           \* stand-alone chain: the shiftOut in progress
  lastSet,      \* stand-alone chain: the last set() call and the bytes before it
  nSets,        \* stand-alone chain: number of set() calls made
  selPins,      \* IC74HC4067: which optional select pins are configured
  position,     \* IC74HC4067: the stored switch position
  lineLevel,    \* the level last driven onto each select line data0..data3
  sw,           \* IC74HC4067: the switch() call in progress
  pinsEnable,   \* IC74HC595: whether an enable (OE) pin is configured
  enabled,      \* IC74HC595.enabled: "undefined", "true" or "false"
  attrs,        \* the probe's attribute store: name -> value (t.get / t.set)
  reqs,         \* output boards: the set requests that have not called back
  ctl,          \* the outcome of the most recent control call
  isSendingNow, \* OutputBoard.isSendingNow
  isDisabled,   \* OutputBoard.isDisabled
  numInputs,    \* input boards: number of configured inputs
  currentInput, \* input boards: the position being scanned
  timer,        \* t.timer: "null", "armed" (pending) or "fired" (stale handle)
  orphans,      \* pending heartbeat timeouts whose handle was overwritten
  cyanide,      \* stop after this heartbeat
  threads,      \* the heartbeats in flight: each a chain of callbacks
  hbCalls,      \* nextHeartbeat calls made from outside so far
  currentOutputLatch, \* IOBoard.currentOutputLatch
  outputQueued, \* IOBoard.outputQueued
  qRetries,     \* IOBoard: pending 10 ms timers that re-run queueOutputs
  inARow,       \* IOBoard: calls of the last control request with no read between
  rotSteps,     \* rotation steps taken so far, counted modulo numInputs
  tickReads,    \* the positions read so far by the heartbeat started last
  tickEnd,      \* how the heartbeat started last stands: "running", "complete", "killed"
  afterFlush,   \* IOBoard: shift cycles started since a closing step flushed outputs
  lastRead,     \* the read completed last: position, reading, selected channel
  released,     \* release() has been called
  bb,           \* OutputBoard: the attributes of the companion monitor (bbMonitor)
  lastBB,       \* OutputBoard: the onBBChange call made last
  pinsClear,    \* IC74HC595: whether a clear (MR) pin is configured
  clr,          \* stand-alone chain: the clearOutput call made last
  oe,           \* IC74HC595: what has been done to the enable pin
  encalls,      \* stand-alone chain: the enableOutput / disableOutput calls
  pinCall       \* BeagleBone probe: the definePins / read control call made last

chainVars == <<ic595Array, first595, valuesRef, sh, lastSet, nSets>>
selVars == <<selPins, position, lineLevel, sw>>
enVars == <<pinsEnable, enabled>>
obVars == <<attrs, reqs, ctl, isSendingNow, isDisabled>>

hbVars == <<numInputs, currentInput, timer, orphans, cyanide, threads, hbCalls>>

ioVars == <<currentOutputLatch, outputQueued, qRetries, inARow>>

histVars == <<rotSteps, tickReads, tickEnd, afterFlush, lastRead, released>>
tickVars == <<tickReads, tickEnd, afterFlush>>

\* the companion monitor, the clear line and the enable line
extraVars == <<bb, lastBB, pinsClear, clr, oe, encalls, pinCall>>

vars == <<board, chainVars, selVars, enVars, obVars, hbVars, ioVars, histVars, extraVars>>

\* what the actions of one device leave alone
notChain == <<selVars, enVars, obVars, hbVars, ioVars, histVars>>
notSel == <<chainVars, enVars, obVars, hbVars, ioVars, histVars>>
notOB == <<first595, valuesRef, sh, lastSet, nSets, selVars, pinsEnable, hbVars, ioVars,
          histVars>>
notIn == <<chainVars, enVars, selPins, sw, reqs, ctl, isSendingNow, isDisabled, numInputs,
          ioVars>>

-----------------------------------------------------------------------------
(* Bounds of the model *)

\* longest chain of 595 chips driven stand-alone
MaxChips == 2
\* set() calls made in one behaviour of the stand-alone chain
MaxSets == 1

\* the highest position of the 16-channel 74HC4067
MaxPosition == 15

\* set requests an output board has outstanding at one time
MaxInFlight == 2
\* inputs configured on an input board
MaxInputs == 2
\* heartbeats that can be in flight at one time
MaxTicks == 2
\* nextHeartbeat calls made from outside in one behaviour
MaxCalls == 1
\* queueOutputs retries an I/O board has pending at one time
MaxRetries == 1
\* reads of one heartbeat that are remembered
MaxReads == 5
\* enableOutput / disableOutput calls made in one behaviour of the stand-alone chain
MaxEnCalls == 3

\* bytes the chips of a stand-alone chain are constructed with
InitBytes == {0, 165}

-----------------------------------------------------------------------------
(* JavaScript values *)

\* encoding of the JavaScript value undefined (a missing array element)
undefined == 0 - 1

\* ToInt32 as applied by the operators | and & : undefined becomes 0
ToInt32(x) == IF x = undefined THEN 0 ELSE x

\* bit k of the non-negative integer x
BitOf(x, k) == (x \div (2 ^ k)) % 2

\* x | mask for mask = 2^k
BitOr(x, k) == IF BitOf(x, k) = 1 THEN x ELSE x + 2 ^ k

\* x & ~mask for mask = 2^k
BitAndNot(x, k) == IF BitOf(x, k) = 1 THEN x - 2 ^ k ELSE x

\* array[i] of a JavaScript array
At(arr, i) == IF i >= 0 /\ i < Len(arr) THEN arr[i + 1] ELSE undefined

\* array[i] = v of a JavaScript array (grows the array, leaving holes)
Put(arr, i, v) ==
  [j \in 1..(IF i + 1 > Len(arr) THEN i + 1 ELSE Len(arr)) |->
     IF j = i + 1 THEN v ELSE IF j <= Len(arr) THEN arr[j] ELSE undefined]

-----------------------------------------------------------------------------
(* IC74HC595: register state *)

\* the array IC74HC595.values currently refers to
values == IF valuesRef = "array" THEN ic595Array ELSE first595

\* a set() that indexes the chip by the bit within the chip (mutant)
IC595_set_wrongChip(vals, pin, value) ==
  LET chipNum == (pin % 8) \div 8
      p == pin % 8
      x == ToInt32(At(vals, chipNum))
  IN  Put(vals, chipNum, IF value # 0 THEN BitOr(x, p) ELSE BitAndNot(x, p))

\* IC74HC595.prototype.set: the values array after set(pin, value)
IC595_set(vals, pin, value) ==
  LET chipNum == pin \div 8
      p == pin % 8
      x == ToInt32(At(vals, chipNum))
  IN  Put(vals, chipNum, IF value # 0 THEN BitOr(x, p) ELSE BitAndNot(x, p))

\* IC74HC595.prototype.get
IC595_get(vals, pin) ==
  LET chipNum == pin \div 8
      p == pin % 8
  IN  IF BitOf(ToInt32(At(vals, chipNum)), p) = 1 THEN 1 ELSE 0

-----------------------------------------------------------------------------
(* IC74HC595: shiftOut and _latch as a chain of asynchronous bus calls.     *)
(* A shift record holds the pending call (pc), the chip being shifted, the *)
(* log of bus calls issued and completed by this shiftOut, and the result  *)
(* delivered to the callback ("threw": an exception, no callback).         *)

NoShift == [pc |-> "none", chip |-> 0 - 1, log |-> <<>>, result |-> "none"]

EvByte(chip, val) == [ev |-> "byte", chip |-> chip, val |-> val]
EvByteDone(chip)  == [ev |-> "byteDone", chip |-> chip, val |-> 0]
EvLatch(level)    == [ev |-> "latch", chip |-> 0 - 1, val |-> level]
EvLatchDone(level) == [ev |-> "latchDone", chip |-> 0 - 1, val |-> level]

\* a shiftOut that starts with the chip nearest the controller and counts up (mutant)
IC595_shiftOut_ascending(vals) ==
  [pc |-> "byte", chip |-> Len(vals) - 1,
   log |-> <<EvByte(0, At(vals, 0))>>, result |-> "none"]

\* IC74HC595.prototype.shiftOut: shift(t.values.length - 1) issues the first transfer
IC595_shiftOut(vals) ==
  [pc |-> "byte", chip |-> Len(vals) - 1,
   log |-> <<EvByte(Len(vals) - 1, At(vals, Len(vals) - 1))>>, result |-> "none"]

\* a byte callback that pulses the latch after every byte (mutant)
IC595_shift_cb_latchEach(s, vals, ok) ==
  IF ~ok
    THEN [s EXCEPT !.pc = "done", !.result = "threw",
                   !.log = Append(s.log, EvByteDone(s.chip))]
    ELSE [s EXCEPT !.pc = "latchHigh",
                   !.log = s.log \o <<EvByteDone(s.chip), EvLatch(1)>>]

\* the callback of b.shiftOut inside shift(chipNumber): on an error the code
\* evaluates x.err with x undeclared, which throws; otherwise the next lower
\* chip is shifted, and after chip 0 _latch writes the latch HIGH
IC595_shift_cb(s, vals, ok) ==
  IF ~ok
    THEN [s EXCEPT !.pc = "done", !.result = "threw",
                   !.log = Append(s.log, EvByteDone(s.chip))]
    ELSE IF s.chip - 1 >= 0
      THEN [s EXCEPT !.chip = s.chip - 1,
                     !.log = s.log \o <<EvByteDone(s.chip),
                                        EvByte(s.chip - 1, At(vals, s.chip - 1))>>]
      ELSE [s EXCEPT !.pc = "latchHigh",
                     !.log = s.log \o <<EvByteDone(s.chip), EvLatch(1)>>]

\* _latch: the callback of digitalWrite(latch, HIGH)
IC595_latchHigh_cb(s, ok) ==
  IF ~ok
    THEN [s EXCEPT !.pc = "done", !.result = "error",
                   !.log = Append(s.log, EvLatchDone(1))]
    ELSE [s EXCEPT !.pc = "latchLow",
                   !.log = s.log \o <<EvLatchDone(1), EvLatch(0)>>]

\* _latch: the callback of digitalWrite(latch, LOW)
IC595_latchLow_cb(s, ok) ==
  [s EXCEPT !.pc = "done", !.result = IF ok THEN "ok" ELSE "error",
            !.log = Append(s.log, EvLatchDone(0))]

\* the completion of whatever bus call the shiftOut s is waiting for
IC595_step(s, vals, ok) ==
  CASE s.pc = "byte"      -> IC595_shift_cb(s, vals, ok)
    [] s.pc = "latchHigh" -> IC595_latchHigh_cb(s, ok)
    [] s.pc = "latchLow"  -> IC595_latchLow_cb(s, ok)
    [] OTHER              -> s

NoSet == [pin |-> 0 - 1, value |-> 0, prev |-> <<>>]

ChainUnused ==
  /\ ic595Array = <<0>>
  /\ first595 = <<0>>
  /\ valuesRef = "array"
  /\ sh = NoShift
  /\ lastSet = NoSet
  /\ nSets = 0

\* no read has completed yet
NoRead == [pos |-> 0 - 1, x |-> 0, sel |-> 0 - 1, published |-> FALSE]

\* no closing step of the heartbeat has flushed outputs
NoFlush == 0 - 1

HistInit ==
  /\ rotSteps = 0
  /\ tickReads = <<>>
  /\ tickEnd = "running"
  /\ afterFlush = NoFlush
  /\ lastRead = NoRead
  /\ released = FALSE

IoUnused ==
  /\ currentOutputLatch = 0
  /\ outputQueued = FALSE
  /\ qRetries = 0
  /\ inARow = 0

HbUnused ==
  /\ IoUnused
  /\ HistInit
  /\ numInputs = 0
  /\ currentInput = 0
  /\ timer = "null"
  /\ orphans = 0
  /\ cyanide = FALSE
  /\ threads = <<>>
  /\ hbCalls = 0

\* no companion monitor is connected
NoCompanion == <<>>

\* onBBChange has not been called
NoBBChange == [cause |-> "none", changes |-> <<>>, local |-> <<>>, remote |-> <<>>]

BbUnused ==
  /\ bb = NoCompanion
  /\ lastBB = NoBBChange

\* clearOutput has not been called
NoClear == [pc |-> "none", log |-> <<>>, result |-> "none", shifts |-> 0]

ClrUnused ==
  /\ pinsClear = FALSE
  /\ clr = NoClear

\* the enable pin has been neither configured nor written
NoDrive == [modes |-> 0, written |-> {}, modeAfterWrite |-> FALSE]

EnOpUnused ==
  /\ oe = NoDrive
  /\ encalls = <<>>

\* no control of the BeagleBone probe has been called
NoPinCall ==
  [op |-> "none", pins |-> <<>>, cbs |-> <<>>, threw |-> FALSE, invalid |-> FALSE,
   phase |-> "none", pending |-> 0, numLeft |-> 0, didError |-> FALSE,
   modes |-> 0, writes |-> 0, reads |-> 0]

PinsUnused == pinCall = NoPinCall

ExtraUnused ==
  /\ BbUnused
  /\ ClrUnused
  /\ EnOpUnused
  /\ PinsUnused

\* a shiftOut is outstanding: it has issued a bus call that has not completed
Shifting(s) == s.pc \in {"byte", "latchHigh", "latchLow"}

-----------------------------------------------------------------------------
(* IC74HC4067: switch(position).  selPins says whether data2 and data3 are *)
(* configured (data0 and data1 always are).  A switch record holds the     *)
(* requested position, the closure variables numPinsLeft and didError, the *)
(* writes issued (line -> value), the lines whose write is outstanding,    *)
(* the lines whose write succeeded, and the result given to the callback.  *)

NoSwitch == [p |-> 0, numPinsLeft |-> 0, didError |-> FALSE, issued |-> {},
             pending |-> {}, okLines |-> {}, result |-> "none", posBefore |-> 0]

\* a range check that lets one position too many through (mutant)
IC4067_outOfRange_offByOne(pins, p) ==
  \/ p < 0
  \/ (~pins.data2 /\ p > 4)
  \/ (~pins.data3 /\ p > 8)
  \/ p > 16

\* the precondition of switch: position out of the range of the configured pins
IC4067_outOfRange(pins, p) ==
  \/ p < 0
  \/ (~pins.data2 /\ p > 3)
  \/ (~pins.data3 /\ p > 7)
  \/ p > 15

\* highOrLow(position & mask) for the mask of select line i
IC4067_highOrLow(p, i) == IF BitOf(p, i) # 0 THEN 1 ELSE 0

\* a switch that drives every line from bit 0 of the position (mutant)
IC4067_writes_bit0(pins, p) ==
  {<<0, IC4067_highOrLow(p, 0)>>, <<1, IC4067_highOrLow(p, 0)>>}
    \cup (IF pins.data2 THEN {<<2, IC4067_highOrLow(p, 0)>>} ELSE {})
    \cup (IF pins.data2 /\ pins.data3 THEN {<<3, IC4067_highOrLow(p, 0)>>} ELSE {})

\* the digitalWrite calls switch issues: data0, data1, data2 if configured,
\* and data3 if configured inside the data2 branch
IC4067_writes(pins, p) ==
  {<<0, IC4067_highOrLow(p, 0)>>, <<1, IC4067_highOrLow(p, 1)>>}
    \cup (IF pins.data2 THEN {<<2, IC4067_highOrLow(p, 2)>>} ELSE {})
    \cup (IF pins.data2 /\ pins.data3 THEN {<<3, IC4067_highOrLow(p, 3)>>} ELSE {})

\* IC74HC4067.prototype.switch up to its return
IC4067_switch(pins, pos, p) ==
  IF IC4067_outOfRange(pins, p)
    THEN [NoSwitch EXCEPT !.p = p, !.result = "range", !.posBefore = pos]
    ELSE [NoSwitch EXCEPT !.p = p, !.posBefore = pos,
                          !.numPinsLeft = Cardinality(IC4067_writes(pins, p)),
                          !.issued = IC4067_writes(pins, p),
                          !.pending = {w[1] : w \in IC4067_writes(pins, p)}]

\* a whenSet that reports success on the first line set (mutant)
IC4067_whenSet_first(s, line, ok) ==
  LET t == [s EXCEPT !.pending = s.pending \ {line},
                     !.okLines = IF ok THEN s.okLines \cup {line} ELSE s.okLines]
  IN  IF s.didError \/ s.result # "none" THEN t
      ELSE IF ~ok THEN [t EXCEPT !.didError = TRUE, !.result = "error"]
      ELSE [t EXCEPT !.numPinsLeft = s.numPinsLeft - 1, !.result = "ok"]

\* whenSet: the callback of one digitalWrite of switch
IC4067_whenSet(s, line, ok) ==
  LET t == [s EXCEPT !.pending = s.pending \ {line},
                     !.okLines = IF ok THEN s.okLines \cup {line} ELSE s.okLines]
  IN  IF s.didError THEN t
      ELSE IF ~ok THEN [t EXCEPT !.didError = TRUE, !.result = "error"]
      ELSE IF s.numPinsLeft - 1 = 0
             THEN [t EXCEPT !.numPinsLeft = 0, !.result = "ok"]
             ELSE [t EXCEPT !.numPinsLeft = s.numPinsLeft - 1]

\* the value the switch record s writes to line
WrittenTo(s, line) == (CHOOSE w \in s.issued : w[1] = line)[2]

SelUnused ==
  /\ selPins = [data2 |-> FALSE, data3 |-> FALSE]
  /\ position = 0
  /\ lineLevel = [i \in 0..3 |-> 0]
  /\ sw = NoSwitch

-----------------------------------------------------------------------------
(* Probes: attribute store, set requests and their validation.  A request  *)
(* is the sequence of its name/value entries in the order for..in visits   *)
(* them.                                                                   *)

Entry(n, v) == [name |-> n, value |-> v]

\* the outputs of the modelled boards: o0 plain, o1 inverse and initially 1
BoardOutputs ==
  <<[name |-> "o0", inverse |-> FALSE, initialValue |-> 0],
    [name |-> "o1", inverse |-> TRUE, initialValue |-> 1]>>

\* validOutputNames once the outputs have been registered
validOutputNames == {BoardOutputs[i].name : i \in 1..Len(BoardOutputs)}

\* requests that pass validation
ValidRequests ==
  { <<>>,
    <<Entry("o0", 0)>>, <<Entry("o0", 1)>>, <<Entry("o1", 0)>>,
    <<Entry("o0", 1), Entry("o1", 1)>> }

\* requests with an unknown name or a value other than 0 and 1, alone or
\* after or before a valid entry
InvalidRequests ==
  { <<Entry("zz", 1)>>, <<Entry("o0", 2)>>,
    <<Entry("o0", 1), Entry("zz", 1)>> }

Requests == ValidRequests \cup InvalidRequests

\* a validation loop that checks the names only (mutant)
Validate_namesOnly(outputs, names) ==
  \A i \in 1..Len(outputs) : outputs[i].name \in names

\* the validation loop of set_control / setOutputs_control: TRUE when no
\* entry makes it return an error
Validate(outputs, names) ==
  \A i \in 1..Len(outputs) :
     /\ outputs[i].name \in names
     /\ outputs[i].value \in {0, 1}

\* t.set(outputs): later entries win
RECURSIVE SetAttrs(_, _)
SetAttrs(store, outputs) ==
  IF outputs = <<>> THEN store
  ELSE SetAttrs([store EXCEPT ![Head(outputs).name] = Head(outputs).value],
                Tail(outputs))

NoCtl == [outputs |-> <<>>, result |-> "none"]

-----------------------------------------------------------------------------
(* OutputBoard (lib/index.js): sendOutputs and set_control                 *)

FreeReq ==
  [state |-> "free", outputs |-> <<>>, sh |-> NoShift, latest |-> FALSE, cb |-> "none",
   init |-> FALSE]

\* the loop of sendOutputs over outputs i..n: stage each published value,
\* 0 for an undefined one, complemented for an inverse output
RECURSIVE OB_stage(_, _, _)
OB_stage(vals, store, i) ==
  IF i > Len(BoardOutputs) THEN vals
  ELSE LET v == IF store[BoardOutputs[i].name] = undefined
                  THEN 0 ELSE store[BoardOutputs[i].name]
           w == IF BoardOutputs[i].inverse THEN (IF v # 0 THEN 0 ELSE 1) ELSE v
       IN  OB_stage(IC595_set(vals, i - 1, w), store, i + 1)

\* init marks the request that initialization makes itself
\* a slot is vacant when it holds no request or one that has called back
Vacant(r) == r.state \in {"free", "done"}

\* the slot a new request occupies
FreeSlot == CHOOSE i \in DOMAIN reqs :
              /\ Vacant(reqs[i])
              /\ \A j \in DOMAIN reqs : Vacant(reqs[j]) => i <= j

\* a request enters: it becomes the latest (a request that has called back
\* is remembered only while it is the latest)
Enter(rs, i, r) ==
  [j \in DOMAIN rs |->
     IF j = i THEN r
     ELSE IF rs[j].state = "done" THEN FreeReq
     ELSE [rs[j] EXCEPT !.latest = FALSE]]

\* the request r has called back with cb ("ok" or "error"), its shiftOut and
\* enabling having ended as s
Done(r, s, cb) ==
  IF r.latest
    THEN [r EXCEPT !.state = "done", !.sh = [NoShift EXCEPT !.result = s.result],
                   !.cb = cb]
    ELSE FreeReq

\* the shiftOut s followed by an enabling step that succeeded or failed
Enabling(s, ok) == IF ok THEN s ELSE [s EXCEPT !.result = "error"]

EnUnused ==
  /\ pinsEnable = FALSE
  /\ enabled = "undefined"

OBUnused ==
  /\ attrs = <<>>
  /\ reqs = <<>>
  /\ ctl = NoCtl
  /\ isSendingNow = FALSE
  /\ isDisabled = FALSE

\* initIC has constructed the IC74HC595 (disabled, zeros shifted out), has
\* registered the output names and has called set_control with the initial
\* values, whose sendOutputs has started its shiftOut
InitOB ==
  /\ board = "output"
  /\ ExtraUnused
  /\ pinsEnable \in BOOLEAN
  /\ enabled = IF pinsEnable THEN "false" ELSE "undefined"
  /\ attrs = [n \in validOutputNames |->
                LET o == CHOOSE k \in 1..Len(BoardOutputs) : BoardOutputs[k].name = n
                IN  IF BoardOutputs[o].initialValue # 0 THEN 1 ELSE 0]
  /\ ic595Array = OB_stage(<<0>>, attrs, 1)
  /\ reqs = [i \in 1..MaxInFlight |->
               IF i = 1
                 THEN [state |-> "shift",
                       outputs |-> <<Entry("o0", 0), Entry("o1", 1)>>,
                       sh |-> IC595_shiftOut(ic595Array), latest |-> TRUE,
                       cb |-> "none", init |-> TRUE]
                 ELSE FreeReq]
  /\ ctl = [outputs |-> <<>>, result |-> "accepted"]
  /\ isSendingNow = TRUE
  /\ isDisabled = TRUE
  /\ first595 = <<0>>
  /\ valuesRef = "array"
  /\ sh = NoShift
  /\ lastSet = NoSet
  /\ nSets = 0
  /\ SelUnused
  /\ HbUnused

\* sendOutputs for the request in slot i: retry in a second while a send is
\* in progress, otherwise stage the published values and start the shiftOut
OB_sendOutputs(i, rs, store) ==
  IF isSendingNow
    THEN /\ reqs' = [rs EXCEPT ![i].state = "wait"]
         /\ UNCHANGED <<isSendingNow, ic595Array>>
    ELSE /\ isSendingNow' = TRUE
         /\ ic595Array' = OB_stage(values, store, 1)
         /\ reqs' = [rs EXCEPT ![i].state = "shift",
                               ![i].sh = IC595_shiftOut(OB_stage(values, store, 1))]

\* set_control(outputs, callback)
OBSetControl ==
  \E outputs \in Requests :
    IF ~Validate(outputs, validOutputNames)
      THEN /\ ctl' = [outputs |-> outputs, result |-> "error"]
           /\ UNCHANGED <<board, extraVars, ic595Array, enabled, attrs, reqs,
                          isSendingNow, isDisabled, notOB>>
      ELSE /\ \E i \in DOMAIN reqs : Vacant(reqs[i])
           /\ ctl' = [outputs |-> <<>>, result |-> "accepted"]
           /\ attrs' = SetAttrs(attrs, outputs)
           /\ OB_sendOutputs(FreeSlot,
                             Enter(reqs, FreeSlot,
                                   [FreeReq EXCEPT !.outputs = outputs, !.latest = TRUE]),
                             attrs')
           /\ UNCHANGED <<board, extraVars, enabled, isDisabled, notOB>>

\* the retry timer of a waiting sendOutputs fires
OBRetry ==
  \E i \in DOMAIN reqs :
    /\ reqs[i].state = "wait"
    /\ OB_sendOutputs(i, reqs, attrs)
    /\ UNCHANGED <<board, extraVars, enabled, attrs, ctl, isDisabled, notOB>>

\* the callback set_control hands to sendOutputs: whatever the outcome,
\* publish the request's values and report success
OB_published(i) == SetAttrs(attrs, reqs[i].outputs)

\* what the caller of set_control is told: the callback handed to sendOutputs
\* takes no argument and ends with callback()
OB_reported(result) == "ok"

\* a callback that enables a disabled board whatever the shiftOut reports
OB_shift_cb_enablesFirst(s, disabled, hasPin) ==
  IF disabled /\ hasPin THEN "enable"
  ELSE IF s.result = "error" THEN "error"
  ELSE "done"

\* the callback sendOutputs hands to shiftOut: an error is passed on; a
\* disabled board is marked enabled and enableOutput is called, which writes
\* the enable pin if there is one; otherwise the request is done
OB_shift_cb(s, disabled, hasPin) ==
  IF s.result = "error" THEN "error"
  ELSE IF disabled /\ hasPin THEN "enable"
  ELSE "done"

\* a bus call of the shiftOut of slot i completes
OBBusDone ==
  \E i \in DOMAIN reqs, ok \in BOOLEAN :
    /\ reqs[i].state = "shift"
    /\ LET s == IC595_step(reqs[i].sh, values, ok) IN
         IF s.pc # "done"
           THEN /\ reqs' = [reqs EXCEPT ![i].sh = s]
                /\ UNCHANGED <<attrs, isSendingNow, isDisabled>>
         ELSE IF s.result = "threw"
           THEN /\ reqs' = [reqs EXCEPT ![i].sh = s, ![i].state = "threw"]
                /\ UNCHANGED <<attrs, isSendingNow, isDisabled>>
         ELSE IF OB_shift_cb(s, isDisabled, pinsEnable) = "error"
           THEN /\ isSendingNow' = FALSE
                /\ attrs' = OB_published(i)
                /\ reqs' = [reqs EXCEPT ![i] = Done(reqs[i], s, OB_reported(s.result))]
                /\ UNCHANGED isDisabled
         ELSE IF OB_shift_cb(s, isDisabled, pinsEnable) = "enable"
           THEN /\ isSendingNow' = FALSE
                /\ isDisabled' = FALSE
                /\ reqs' = [reqs EXCEPT ![i].sh = s, ![i].state = "enable"]
                /\ UNCHANGED attrs
         ELSE /\ isSendingNow' = FALSE
              /\ isDisabled' = FALSE
              /\ attrs' = OB_published(i)
              /\ reqs' = [reqs EXCEPT ![i] = Done(reqs[i], s, OB_reported(s.result))]
    /\ UNCHANGED <<board, extraVars, ic595Array, enabled, ctl, notOB>>

\* the digitalWrite of enableOutput for slot i completes
OBEnableDone ==
  \E i \in DOMAIN reqs, ok \in BOOLEAN :
    /\ reqs[i].state = "enable"
    /\ enabled' = IF ok THEN "true" ELSE enabled
    /\ attrs' = OB_published(i)
    /\ reqs' = [reqs EXCEPT ![i] = Done(reqs[i], Enabling(reqs[i].sh, ok),
                                        OB_reported(Enabling(reqs[i].sh, ok).result))]
    /\ UNCHANGED <<board, extraVars, ic595Array, ctl, isSendingNow, isDisabled, notOB>>

NextOB ==
  \/ OBSetControl
  \/ OBRetry
  \/ OBBusDone
  \/ OBEnableDone

SpecOB == InitOB /\ [][NextOB]_vars

\* the output board when every bus call eventually calls back and every
\* retry timer eventually fires
SpecOBFair == SpecOB /\ WF_vars(OBBusDone) /\ WF_vars(OBEnableDone) /\ WF_vars(OBRetry)

-----------------------------------------------------------------------------
(* OutputBoard (lib/index.js) with a companion monitor (bbProbeName): the  *)
(* callback of set_control mirrors the values into the companion, and a    *)
(* change of the companion runs onBBChange.  The companion is a Backbone   *)
(* model: set() fires its change event, synchronously, when a value        *)
(* changed.  One call chain is computed on a record of the fields it       *)
(* touches.                                                                *)

\* what the extra variables other than the companion's are
notBb == <<pinsClear, clr, oe, encalls, pinCall>>

\* the fields a call chain of the mirrored board reads and writes
OBM_state ==
  [a |-> attrs, r |-> reqs, busy |-> isSendingNow, arr |-> ic595Array,
   b |-> bb, last |-> lastBB]

OBM_apply(st) ==
  /\ attrs' = st.a
  /\ reqs' = st.r
  /\ isSendingNow' = st.busy
  /\ ic595Array' = st.arr
  /\ bb' = st.b
  /\ lastBB' = st.last

\* the slot a new request occupies among rs
OBM_freeSlot(rs) == CHOOSE i \in DOMAIN rs :
                      /\ Vacant(rs[i])
                      /\ \A j \in DOMAIN rs : Vacant(rs[j]) => i <= j

\* sendOutputs for the request in slot i
OBM_sendOutputs(st, i) ==
  IF st.busy
    THEN [st EXCEPT !.r[i].state = "wait"]
    ELSE [st EXCEPT !.busy = TRUE,
                    !.arr = OB_stage(st.arr, st.a, 1),
                    !.r[i].state = "shift",
                    !.r[i].sh = IC595_shiftOut(OB_stage(st.arr, st.a, 1))]

\* set_control(outputs, callback): an invalid request changes nothing
OBM_set_control(st, outputs) ==
  IF ~Validate(outputs, validOutputNames)
    THEN st
    ELSE OBM_sendOutputs(
           [st EXCEPT !.a = SetAttrs(st.a, outputs),
                      !.r = Enter(st.r, OBM_freeSlot(st.r),
                                  [FreeReq EXCEPT !.outputs = outputs, !.latest = TRUE])],
           OBM_freeSlot(st.r))

\* the loop of onBBChange over validOutputNames i..n: the names whose
\* companion value is not the local one, with the companion value
RECURSIVE OBM_changes(_, _, _)
OBM_changes(store, remote, i) ==
  IF i > Len(BoardOutputs) THEN <<>>
  ELSE (IF remote[BoardOutputs[i].name] # store[BoardOutputs[i].name]
          THEN <<Entry(BoardOutputs[i].name, remote[BoardOutputs[i].name])>>
          ELSE <<>>)
       \o OBM_changes(store, remote, i + 1)

\* onBBChange: set_control(changes) if there are any
OBM_onBBChange(st, cause) ==
  LET changes == OBM_changes(st.a, st.b, 1)
      call == [cause |-> cause, changes |-> changes, local |-> st.a, remote |-> st.b]
  IN  IF Len(changes) > 0
        THEN [OBM_set_control(st, changes) EXCEPT !.last = call]
        ELSE [st EXCEPT !.last = call]

\* the callback set_control hands to sendOutputs, for the request in slot i
\* whose shiftOut and enabling ended as s: publish the values, set them in
\* the companion (which runs onBBChange if one of them changed), call back
OBM_callback(st, i, s) ==
  LET published == [st EXCEPT !.a = SetAttrs(st.a, st.r[i].outputs),
                              !.r[i] = Done(st.r[i], s, OB_reported(s.result))]
      mirrored == [published EXCEPT !.b = SetAttrs(st.b, st.r[i].outputs)]
  IN  IF mirrored.b # st.b THEN OBM_onBBChange(mirrored, "mirror") ELSE mirrored

\* the requests made of the mirrored board by its own callers
OBMRequests == {<<Entry("o0", 1)>>, <<Entry("o1", 0)>>, <<Entry("o0", 2)>>}

\* as InitOB, with the companion connected and holding none of the outputs
InitOBM ==
  /\ board = "outputMirror"
  /\ bb = [n \in validOutputNames |-> undefined]
  /\ lastBB = NoBBChange
  /\ ClrUnused
  /\ EnOpUnused
  /\ PinsUnused
  /\ pinsEnable \in BOOLEAN
  /\ enabled = IF pinsEnable THEN "false" ELSE "undefined"
  /\ attrs = [n \in validOutputNames |->
                LET o == CHOOSE k \in 1..Len(BoardOutputs) : BoardOutputs[k].name = n
                IN  IF BoardOutputs[o].initialValue # 0 THEN 1 ELSE 0]
  /\ ic595Array = OB_stage(<<0>>, attrs, 1)
  /\ reqs = [i \in 1..MaxInFlight |->
               IF i = 1
                 THEN [state |-> "shift",
                       outputs |-> <<Entry("o0", 0), Entry("o1", 1)>>,
                       sh |-> IC595_shiftOut(ic595Array), latest |-> TRUE,
                       cb |-> "none", init |-> TRUE]
                 ELSE FreeReq]
  /\ ctl = [outputs |-> <<>>, result |-> "accepted"]
  /\ isSendingNow = TRUE
  /\ isDisabled = TRUE
  /\ first595 = <<0>>
  /\ valuesRef = "array"
  /\ sh = NoShift
  /\ lastSet = NoSet
  /\ nSets = 0
  /\ SelUnused
  /\ HbUnused

\* set_control(outputs, callback) called by a client of the board
OBMSetControl ==
  \E outputs \in OBMRequests :
    /\ \E i \in DOMAIN reqs : Vacant(reqs[i])
    /\ ctl' = IF Validate(outputs, validOutputNames)
                THEN [outputs |-> <<>>, result |-> "accepted"]
                ELSE [outputs |-> outputs, result |-> "error"]
    /\ OBM_apply(OBM_set_control(OBM_state, outputs))
    /\ UNCHANGED <<board, notBb, enabled, isDisabled, notOB>>

\* the retry timer of a waiting sendOutputs fires
OBMRetry ==
  \E i \in DOMAIN reqs :
    /\ reqs[i].state = "wait"
    /\ OBM_apply(OBM_sendOutputs(OBM_state, i))
    /\ UNCHANGED <<board, notBb, enabled, ctl, isDisabled, notOB>>

\* a bus call of the shiftOut of slot i completes
OBMBusDone ==
  \E i \in DOMAIN reqs, ok \in BOOLEAN :
    /\ reqs[i].state = "shift"
    /\ LET s == IC595_step(reqs[i].sh, values, ok) IN
         IF s.pc # "done"
           THEN /\ OBM_apply([OBM_state EXCEPT !.r[i].sh = s])
                /\ UNCHANGED isDisabled
         ELSE IF s.result = "threw"
           THEN /\ OBM_apply([OBM_state EXCEPT !.r[i].sh = s, !.r[i].state = "threw"])
                /\ UNCHANGED isDisabled
         ELSE IF s.result = "error"
           THEN /\ OBM_apply(OBM_callback([OBM_state EXCEPT !.busy = FALSE], i, s))
                /\ UNCHANGED isDisabled
         ELSE IF isDisabled /\ pinsEnable
           THEN /\ OBM_apply([OBM_state EXCEPT !.busy = FALSE, !.r[i].sh = s,
                                               !.r[i].state = "enable"])
                /\ isDisabled' = FALSE
         ELSE /\ OBM_apply(OBM_callback([OBM_state EXCEPT !.busy = FALSE], i, s))
              /\ isDisabled' = FALSE
    /\ UNCHANGED <<board, notBb, enabled, ctl, notOB>>

\* the digitalWrite of enableOutput for slot i completes
OBMEnableDone ==
  \E i \in DOMAIN reqs, ok \in BOOLEAN :
    /\ reqs[i].state = "enable"
    /\ enabled' = IF ok THEN "true" ELSE enabled
    /\ OBM_apply(OBM_callback(OBM_state, i, Enabling(reqs[i].sh, ok)))
    /\ UNCHANGED <<board, notBb, ctl, isDisabled, notOB>>

\* the companion controller changes one of the outputs: its change event
\* runs onBBChange
OBMCompanionChange ==
  \E n \in validOutputNames, v \in {0, 1} :
    /\ bb[n] # v
    /\ \E i \in DOMAIN reqs : Vacant(reqs[i])
    /\ OBM_apply(OBM_onBBChange([OBM_state EXCEPT !.b = [bb EXCEPT ![n] = v]],
                                "companion"))
    /\ UNCHANGED <<board, notBb, enabled, ctl, isDisabled, notOB>>

NextOBM ==
  \/ OBMSetControl
  \/ OBMRetry
  \/ OBMBusDone
  \/ OBMEnableDone
  \/ OBMCompanionChange

SpecOBM == InitOBM /\ [][NextOBM]_vars

-----------------------------------------------------------------------------
(* OutputBoard (lib/probe/OutputBoard.js): sendOutputs and                 *)
(* setOutputs_control.  This version keeps no isSendingNow flag and        *)
(* publishes the values before sending them.                               *)

\* byte every chip is constructed with
ProbeInitialByte == 255

\* initialize has published 0 for every output (it reads output.initalValue),
\* has constructed the IC74HC595 (disabled, initial bytes shifted out) and has
\* called sendOutputs, whose shiftOut is in progress
InitOBP ==
  /\ board = "outputProbe"
  /\ ExtraUnused
  /\ pinsEnable \in BOOLEAN
  /\ enabled = IF pinsEnable THEN "false" ELSE "undefined"
  /\ attrs = [n \in validOutputNames |-> 0]
  /\ ic595Array = OB_stage(<<ProbeInitialByte>>, attrs, 1)
  /\ reqs = [i \in 1..MaxInFlight |->
               IF i = 1
                 THEN [state |-> "shift", outputs |-> <<>>,
                       sh |-> IC595_shiftOut(ic595Array), latest |-> TRUE,
                       cb |-> "none", init |-> TRUE]
                 ELSE FreeReq]
  /\ ctl = [outputs |-> <<>>, result |-> "accepted"]
  /\ isSendingNow = FALSE
  /\ isDisabled = TRUE
  /\ first595 = <<0>>
  /\ valuesRef = "array"
  /\ sh = NoShift
  /\ lastSet = NoSet
  /\ nSets = 0
  /\ SelUnused
  /\ HbUnused

\* setOutputs_control(outputs, callback): validate, publish, sendOutputs
OBPSetOutputs ==
  \E outputs \in Requests :
    IF ~Validate(outputs, validOutputNames)
      THEN /\ ctl' = [outputs |-> outputs, result |-> "error"]
           /\ UNCHANGED <<board, extraVars, ic595Array, enabled, attrs, reqs,
                          isSendingNow, isDisabled, notOB>>
      ELSE /\ \E i \in DOMAIN reqs : Vacant(reqs[i])
           /\ ctl' = [outputs |-> <<>>, result |-> "accepted"]
           /\ attrs' = SetAttrs(attrs, outputs)
           /\ ic595Array' = OB_stage(values, attrs', 1)
           /\ reqs' = Enter(reqs, FreeSlot,
                            [state |-> "shift", outputs |-> outputs,
                             sh |-> IC595_shiftOut(ic595Array'), latest |-> TRUE,
                             cb |-> "none", init |-> FALSE])
           /\ UNCHANGED <<board, extraVars, enabled, isSendingNow, isDisabled, notOB>>

\* what the caller of setOutputs_control is told: its callback is the one
\* sendOutputs hands the error to
OBP_reported(result) == result

\* a bus call of the shiftOut of slot i completes
OBPBusDone ==
  \E i \in DOMAIN reqs, ok \in BOOLEAN :
    /\ reqs[i].state = "shift"
    /\ LET s == IC595_step(reqs[i].sh, values, ok) IN
         IF s.pc # "done"
           THEN /\ reqs' = [reqs EXCEPT ![i].sh = s]
                /\ UNCHANGED isDisabled
         ELSE IF s.result = "threw"
           THEN /\ reqs' = [reqs EXCEPT ![i].sh = s, ![i].state = "threw"]
                /\ UNCHANGED isDisabled
         ELSE IF s.result = "error"
           THEN /\ reqs' = [reqs EXCEPT ![i] = Done(reqs[i], s, OBP_reported(s.result))]
                /\ UNCHANGED isDisabled
         ELSE IF isDisabled /\ pinsEnable
           THEN /\ isDisabled' = FALSE
                /\ reqs' = [reqs EXCEPT ![i].sh = s, ![i].state = "enable"]
         ELSE /\ isDisabled' = FALSE
              /\ reqs' = [reqs EXCEPT ![i] = Done(reqs[i], s, OBP_reported(s.result))]
    /\ UNCHANGED <<board, extraVars, ic595Array, enabled, attrs, ctl, isSendingNow, notOB>>

\* the digitalWrite of enableOutput for slot i completes
OBPEnableDone ==
  \E i \in DOMAIN reqs, ok \in BOOLEAN :
    /\ reqs[i].state = "enable"
    /\ enabled' = IF ok THEN "true" ELSE enabled
    /\ reqs' = [reqs EXCEPT ![i] = Done(reqs[i], Enabling(reqs[i].sh, ok),
                                        OBP_reported(Enabling(reqs[i].sh, ok).result))]
    /\ UNCHANGED <<board, extraVars, ic595Array, attrs, ctl, isSendingNow, isDisabled, notOB>>

NextOBP ==
  \/ OBPSetOutputs
  \/ OBPBusDone
  \/ OBPEnableDone

SpecOBP == InitOBP /\ [][NextOBP]_vars

-----------------------------------------------------------------------------
(* Heartbeat boards: configuration, readings, threads of callbacks         *)

\* the inputs of the modelled boards; the first numInputs are configured
BoardInputs ==
  <<[name |-> "i0", precision |-> 2],
    [name |-> "i1", precision |-> 0],
    [name |-> "i2", precision |-> undefined],
    [name |-> "i3", precision |-> 1]>>

\* values the input line is read as, in units of 1/10000: 0, 0.1204 and 0.1234
Readings == {0, 1204, 1234}

\* the outcome of a failed read
ReadError == 0 - 1

\* +x.toFixed(precision) for a reading that is no rounding tie
ToFixed(x, precision) ==
  LET q == 10 ^ (4 - precision)
  IN  ((x + q \div 2) \div q) * q

NoThread == [pc |-> "free", sw |-> NoSwitch, sh |-> NoShift]
ReadingThread == [pc |-> "read", sw |-> NoSwitch, sh |-> NoShift]

\* a heartbeat is in flight
TickInFlight == \E i \in DOMAIN threads : threads[i].pc # "free"

FreeThread == CHOOSE i \in DOMAIN threads :
                /\ threads[i].pc = "free"
                /\ \A j \in DOMAIN threads : threads[j].pc = "free" => i <= j

\* setTimeout(t.heartbeatFn, ...) assigned to t.timer
ArmTimer ==
  /\ timer' = "armed"
  /\ orphans' = IF timer = "armed" THEN orphans + 1 ELSE orphans

\* the reads of a heartbeat with one more, as far as they are remembered
Remember(reads, pos) == IF Len(reads) < MaxReads THEN Append(reads, pos) ELSE reads

\* the channel the levels of the select lines address
Selected == lineLevel[0] + 2 * lineLevel[1] + 4 * lineLevel[2] + 8 * lineLevel[3]

\* a rotation that goes back to zero one position early (mutant)
Rotate_early(cur, n) == IF cur + 1 >= n - 1 THEN 0 ELSE cur + 1

\* rotateInput: ++t.currentInput, back to zero at numInputs
Rotate(cur, n) == IF cur + 1 = n THEN 0 ELSE cur + 1

\* a guard that discards a call whenever a heartbeat is in flight (mutant)
HeartbeatGuard_inFlight(cur) == cur # 0 \/ TickInFlight

\* the safety valve of nextHeartbeat: the call is discarded
HeartbeatGuard(cur) == cur # 0

-----------------------------------------------------------------------------
(* InputBoard: nextHeartbeat, readInput, rotateInput, release              *)

\* a publish of the reading as it was read (mutant)
In_publish_unrounded(store, cur, x) ==
  LET input == BoardInputs[cur + 1]
  IN  IF store[input.name] # x
        THEN [store EXCEPT ![input.name] = x]
        ELSE store

\* the callback of readInput publishes the rounded reading if it differs
In_publish(store, cur, x) ==
  LET input == BoardInputs[cur + 1]
      precision == IF input.precision = undefined THEN 3 ELSE input.precision
      attrValue == ToFixed(x, precision)
  IN  IF store[input.name] # attrValue
        THEN [store EXCEPT ![input.name] = attrValue]
        ELSE store

\* a read callback that publishes the outcome of a failed read (mutant)
In_read_cb_publishesError(store, cur, x) ==
  IF x = ReadError
    THEN [store EXCEPT ![BoardInputs[cur + 1].name] = ReadError]
    ELSE In_publish(store, cur, x)

\* the callback of readInput: a failed read is logged and nothing is published
In_read_cb(store, cur, x) ==
  IF x = ReadError THEN store ELSE In_publish(store, cur, x)

\* a switch callback that ends the heartbeat at whatever position (mutant)
In_switch_cb_endsEarly(i, cur) ==
  /\ IF cyanide THEN UNCHANGED <<timer, orphans>> ELSE ArmTimer
  /\ threads' = [threads EXCEPT ![i] = NoThread]
  /\ tickEnd' = "complete"

\* the callback rotateInput hands to switch: the error is not looked at; back
\* at position 0 the heartbeat ends and re-arms the timer unless stopped
In_switch_cb(i, cur) ==
  IF cur = 0
    THEN /\ IF cyanide THEN UNCHANGED <<timer, orphans>> ELSE ArmTimer
         /\ threads' = [threads EXCEPT ![i] = NoThread]
         /\ tickEnd' = "complete"
    ELSE /\ UNCHANGED <<timer, orphans, tickEnd>>
         /\ threads' = [threads EXCEPT ![i] = ReadingThread]

\* the IC74HC4067 has been constructed at position 0 and initIC has called
\* nextHeartbeat, whose first read is in progress
InitIn ==
  /\ board = "input"
  /\ ExtraUnused
  /\ numInputs \in 1..MaxInputs
  /\ currentInput = 0
  /\ timer = "null"
  /\ orphans = 0
  /\ cyanide = FALSE
  /\ threads = [i \in 1..MaxTicks |-> IF i = 1 THEN ReadingThread ELSE NoThread]
  /\ hbCalls = 0
  /\ attrs = [n \in {BoardInputs[k].name : k \in 1..numInputs} |-> 0]
  /\ selPins = [data2 |-> FALSE, data3 |-> FALSE]
  /\ position = 0
  /\ lineLevel = [i \in 0..3 |-> 0]
  /\ sw = NoSwitch
  /\ reqs = <<>>
  /\ ctl = NoCtl
  /\ isSendingNow = FALSE
  /\ isDisabled = FALSE
  /\ ChainUnused
  /\ EnUnused
  /\ IoUnused
  /\ HistInit

\* a nextHeartbeat that leaves a pending timer as it is (mutant)
In_nextHeartbeat_keepsTimer ==
  IF HeartbeatGuard(currentInput)
    THEN UNCHANGED <<timer, threads, tickVars>>
    ELSE /\ UNCHANGED timer
         /\ \E i \in DOMAIN threads : threads[i].pc = "free"
         /\ threads' = [threads EXCEPT ![FreeThread] = ReadingThread]
         /\ tickReads' = <<>>
         /\ tickEnd' = "running"
         /\ afterFlush' = NoFlush

\* nextHeartbeat() past its guard: reset the timer, start reading
In_nextHeartbeat ==
  IF HeartbeatGuard(currentInput)
    THEN UNCHANGED <<timer, threads, tickVars>>
    ELSE /\ timer' = "null"
         /\ \E i \in DOMAIN threads : threads[i].pc = "free"
         /\ threads' = [threads EXCEPT ![FreeThread] = ReadingThread]
         /\ tickReads' = <<>>
         /\ tickEnd' = "running"
         /\ afterFlush' = NoFlush

\* the read of a heartbeat completes; rotateInput switches to the next position
InReadDone ==
  \E i \in DOMAIN threads, x \in Readings \cup {ReadError} :
    /\ threads[i].pc = "read"
    /\ attrs' = In_read_cb(attrs, currentInput, x)
    /\ lastRead' = [pos |-> currentInput, x |-> x, sel |-> Selected,
                    published |-> attrs' # attrs]
    /\ tickReads' = Remember(tickReads, currentInput)
    /\ rotSteps' = (rotSteps + 1) % numInputs
    /\ currentInput' = Rotate(currentInput, numInputs)
    /\ LET s == IC4067_switch(selPins, position, currentInput') IN
         IF s.result = "range"
           THEN In_switch_cb(i, currentInput')
           ELSE /\ threads' = [threads EXCEPT ![i] = [pc |-> "switch", sw |-> s, sh |-> NoShift]]
                /\ UNCHANGED <<timer, orphans, tickEnd>>
    /\ UNCHANGED <<board, extraVars, position, lineLevel, cyanide, hbCalls, notIn, afterFlush,
                   released>>

\* one digitalWrite of a heartbeat's switch completes.  A failed write
\* leaves its line at either level, and so do the writes still outstanding
\* when the switch calls back with an error.
InSwitchWriteDone ==
  \E i \in DOMAIN threads :
    /\ threads[i].pc = "switch"
    /\ \E line \in threads[i].sw.pending, ok \in BOOLEAN :
         LET s == IC4067_whenSet(threads[i].sw, line, ok) IN
           /\ \E lv \in [0..3 -> {0, 1}] :
                /\ \A k \in 0..3 :
                      \/ lv[k] = lineLevel[k] /\ (k # line \/ ~ok)
                      \/ /\ k \in threads[i].sw.pending
                         /\ lv[k] = WrittenTo(threads[i].sw, k)
                         /\ (k = line \/ s.result = "error")
                /\ lineLevel' = lv
           /\ IF s.result = "none"
                THEN /\ threads' = [threads EXCEPT ![i].sw = s]
                     /\ UNCHANGED <<position, timer, orphans, tickEnd>>
                ELSE /\ position' = IF s.result = "ok" THEN s.p ELSE position
                     /\ In_switch_cb(i, currentInput)
    /\ UNCHANGED <<board, extraVars, attrs, currentInput, cyanide, hbCalls, notIn, rotSteps,
                   tickReads, afterFlush, lastRead, released>>

\* the heartbeat timeout fires: heartbeatFn calls nextHeartbeat()
InTimerFires ==
  /\ \/ /\ timer = "armed"
        /\ UNCHANGED orphans
        /\ IF HeartbeatGuard(currentInput)
             THEN timer' = "fired" /\ UNCHANGED <<threads, tickVars>>
             ELSE In_nextHeartbeat
     \/ /\ orphans > 0
        /\ orphans' = orphans - 1
        /\ In_nextHeartbeat
  /\ UNCHANGED <<board, extraVars, attrs, position, lineLevel, currentInput, cyanide, hbCalls, notIn,
                 rotSteps, lastRead, released>>

\* a release that cancels the timer and never stops the heart (mutant)
InRelease_cancelsOnly ==
  /\ ~released
  /\ timer' = "null"
  /\ UNCHANGED cyanide
  /\ released' = TRUE
  /\ UNCHANGED <<board, extraVars, attrs, position, lineLevel, currentInput, orphans, threads,
                 hbCalls, notIn, rotSteps, tickVars, lastRead>>

\* release()
InRelease ==
  /\ ~cyanide
  /\ IF timer # "null"
       THEN timer' = "null" /\ UNCHANGED cyanide
       ELSE cyanide' = TRUE /\ UNCHANGED timer
  /\ released' = TRUE
  /\ UNCHANGED <<board, extraVars, attrs, position, lineLevel, currentInput, orphans, threads,
                 hbCalls, notIn, rotSteps, tickVars, lastRead>>

\* nextHeartbeat() called from outside while the board runs
InHeartbeatCall ==
  /\ hbCalls < MaxCalls
  /\ hbCalls' = hbCalls + 1
  /\ In_nextHeartbeat
  /\ UNCHANGED <<board, extraVars, attrs, position, lineLevel, currentInput, orphans, cyanide, notIn,
                 rotSteps, lastRead, released>>

NextIn ==
  \/ InReadDone
  \/ InSwitchWriteDone
  \/ InTimerFires
  \/ InRelease

SpecIn == InitIn /\ [][NextIn]_vars

\* the input board with callers that may call nextHeartbeat at any moment
NextInRe ==
  \/ NextIn
  \/ InHeartbeatCall

SpecInRe == InitIn /\ [][NextInRe]_vars

-----------------------------------------------------------------------------
(* IOBoard: queueOutputs, nextHeartbeat, setOutputs_control, release       *)

\* the loop of queueOutputs over outputs i..n: set(i + 8, t.get(name)), the
\* published value going to the second chip onwards as it is
RECURSIVE IO_stage(_, _, _)
IO_stage(vals, store, i) ==
  IF i > Len(BoardOutputs) THEN vals
  ELSE IO_stage(IC595_set(vals, (i - 1) + 8, store[BoardOutputs[i].name]), store, i + 1)

\* t.num595chips = 1 + Math.ceil(t.numOutputs / 8)
num595chips == 1 + (Len(BoardOutputs) + 7) \div 8

\* queueOutputs: while the latch bit is up a retry is scheduled, and the
\* function carries on all the same: fill ic595Array, mark the queue
IO_queueOutputs(pendingRetries) ==
  /\ qRetries' = IF currentOutputLatch = 1 THEN pendingRetries + 1 ELSE pendingRetries
  /\ ic595Array' = IO_stage(ic595Array, attrs', 1)
  /\ outputQueued' = TRUE

\* a validation loop that looks the names up in validOutputNames (mutant)
IO_validate_byName(outputs) ==
  IF Validate(outputs, validOutputNames) THEN "valid" ELSE "threw"

\* the validation loop of setOutputs_control: the first name of the request
\* is looked up in t.validOutputsNames, a property nothing assigns, so the
\* lookup throws a TypeError; a request without names passes
IO_validate(outputs) == IF Len(outputs) > 0 THEN "threw" ELSE "valid"

\* a latch bit that is never raised (mutant)
IO_latchBit_never(queued) == 0

\* t.currentOutputLatch = t.outputQueued ? 1 : 0
IO_latchBit(queued) == IF queued THEN 1 ELSE 0

\* a shiftOut callback that ends the heartbeat at position 0 whatever the
\* latch bit (mutant)
IO_shift_cb_ignoresLatch(i) ==
  IF currentInput = 0
    THEN /\ IF cyanide THEN UNCHANGED <<timer, orphans>> ELSE ArmTimer
         /\ threads' = [threads EXCEPT ![i] = NoThread]
         /\ tickEnd' = "complete"
    ELSE /\ UNCHANGED <<timer, orphans, tickEnd>>
         /\ threads' = [threads EXCEPT ![i] = ReadingThread]

\* the callback of shiftOut in rotateInput: the heartbeat ends at position 0
\* with the latch bit down; the error is not looked at
IO_shift_cb(i) ==
  IF currentInput = 0 /\ currentOutputLatch = 0
    THEN /\ IF cyanide THEN UNCHANGED <<timer, orphans>> ELSE ArmTimer
         /\ threads' = [threads EXCEPT ![i] = NoThread]
         /\ tickEnd' = "complete"
    ELSE /\ UNCHANGED <<timer, orphans, tickEnd>>
         /\ threads' = [threads EXCEPT ![i] = ReadingThread]

\* a controller byte without the output enable bit (mutant)
IO_control_noEnable(picked, cur, latch) ==
  IC595_set(Put(picked, 0, cur), 7, latch)

\* rotateInput sets up the first 595: values[0] = currentInput, set(6, 1),
\* set(7, currentOutputLatch)
IO_control(picked, cur, latch) ==
  IC595_set(IC595_set(Put(picked, 0, cur), 6, 1), 7, latch)

\* the requests made of the I/O board: none, a valid one, a bad name, a bad value
IORequests ==
  {<<>>, <<Entry("o0", 1)>>, <<Entry("zz", 1)>>, <<Entry("o0", 2)>>}

\* values the input line of the I/O board is read as: 0 and 0.1234
IOReadings == {0, 1234}

\* the IC74HC595 has been constructed on ic595Array and has shifted out its
\* zeros, queueOutputs has staged the initial outputs, and the first
\* nextHeartbeat is reading position 0
InitIO ==
  /\ board = "io"
  /\ ExtraUnused
  /\ numInputs \in 1..MaxInputs
  /\ currentInput = 0
  /\ timer = "null"
  /\ orphans = 0
  /\ cyanide = FALSE
  /\ threads = [i \in 1..MaxTicks |-> IF i = 1 THEN ReadingThread ELSE NoThread]
  /\ hbCalls = 0
  /\ attrs = [n \in {BoardInputs[k].name : k \in 1..numInputs} \cup validOutputNames |->
                IF n \in validOutputNames
                  THEN LET o == CHOOSE k \in 1..Len(BoardOutputs) : BoardOutputs[k].name = n
                       IN  IF BoardOutputs[o].initialValue # 0 THEN 1 ELSE 0
                  ELSE 0]
  /\ ic595Array = IO_stage([i \in 1..num595chips |-> 0], attrs, 1)
  /\ first595 = <<0>>
  /\ valuesRef = "array"
  /\ currentOutputLatch = 0
  /\ outputQueued = TRUE
  /\ qRetries = 0
  /\ inARow = 0
  /\ sh = NoShift
  /\ lastSet = NoSet
  /\ nSets = 0
  /\ reqs = <<>>
  /\ ctl = NoCtl
  /\ isSendingNow = FALSE
  /\ isDisabled = FALSE
  /\ SelUnused
  /\ EnUnused
  /\ HistInit

\* nextHeartbeat() of the IOBoard past its guard: reset the timer, start reading
IO_nextHeartbeat ==
  IF HeartbeatGuard(currentInput)
    THEN UNCHANGED <<timer, threads, tickVars>>
    ELSE /\ timer' = "null"
         /\ \E i \in DOMAIN threads : threads[i].pc = "free"
         /\ threads' = [threads EXCEPT ![FreeThread] = ReadingThread]
         /\ tickReads' = <<>>
         /\ tickEnd' = "running"
         /\ afterFlush' = NoFlush

\* the read of a heartbeat completes: publish the value if it differs, then
\* rotateInput picks the array to send, writes the position, the enable bit
\* and the latch bit into its first byte and starts the shiftOut
IOReadDone ==
  \E i \in DOMAIN threads, x \in IOReadings \cup {ReadError} :
    /\ threads[i].pc = "read"
    /\ attrs' = IF x = ReadError \/ attrs[BoardInputs[currentInput + 1].name] = x
                  THEN attrs
                  ELSE [attrs EXCEPT ![BoardInputs[currentInput + 1].name] = x]
    /\ lastRead' = [pos |-> currentInput, x |-> x, sel |-> 0 - 1,
                    published |-> attrs' # attrs]
    /\ tickReads' = Remember(tickReads, currentInput)
    /\ rotSteps' = (rotSteps + 1) % numInputs
    /\ currentInput' = Rotate(currentInput, numInputs)
    /\ afterFlush' = IF currentInput' = 0 /\ outputQueued THEN 0
                     ELSE IF afterFlush = NoFlush THEN NoFlush
                     ELSE afterFlush + 1
    /\ valuesRef' = IF outputQueued THEN "array" ELSE "first"
    /\ currentOutputLatch' = IO_latchBit(outputQueued)
    /\ LET picked == IF outputQueued THEN ic595Array ELSE first595
           sent == IO_control(picked, currentInput', currentOutputLatch')
       IN  /\ ic595Array' = IF outputQueued THEN sent ELSE ic595Array
           /\ first595' = IF outputQueued THEN first595 ELSE sent
           /\ threads' = [threads EXCEPT
                            ![i] = [pc |-> "shift", sw |-> NoSwitch,
                                    sh |-> IC595_shiftOut(sent)]]
    /\ outputQueued' = FALSE
    /\ inARow' = 0
    /\ UNCHANGED <<board, extraVars, sh, lastSet, nSets, selVars, enVars, reqs, ctl, isSendingNow,
                   isDisabled, numInputs, timer, orphans, cyanide, hbCalls, qRetries,
                   tickEnd, released>>

\* a bus call of a heartbeat's shiftOut completes
IOBusDone ==
  \E i \in DOMAIN threads, ok \in BOOLEAN :
    /\ threads[i].pc = "shift"
    /\ LET s == IC595_step(threads[i].sh, values, ok) IN
         IF s.pc # "done"
           THEN /\ threads' = [threads EXCEPT ![i].sh = s]
                /\ UNCHANGED <<timer, orphans, tickEnd>>
         ELSE IF s.result = "threw"
           THEN /\ threads' = [threads EXCEPT ![i] = NoThread]
                /\ tickEnd' = "killed"
                /\ UNCHANGED <<timer, orphans>>
         ELSE IO_shift_cb(i)
    /\ UNCHANGED <<board, extraVars, chainVars, selVars, enVars, obVars, numInputs, currentInput,
                   cyanide, hbCalls, ioVars, rotSteps, tickReads, afterFlush, lastRead,
                   released>>

\* the heartbeat timeout fires: heartbeatFn calls nextHeartbeat()
IOTimerFires ==
  /\ \/ /\ timer = "armed"
        /\ UNCHANGED orphans
        /\ IF HeartbeatGuard(currentInput)
             THEN timer' = "fired" /\ UNCHANGED <<threads, tickVars>>
             ELSE IO_nextHeartbeat
     \/ /\ orphans > 0
        /\ orphans' = orphans - 1
        /\ IO_nextHeartbeat
  /\ UNCHANGED <<board, extraVars, chainVars, selVars, enVars, obVars, numInputs, currentInput,
                 cyanide, hbCalls, ioVars, rotSteps, lastRead, released>>

\* release()
IORelease ==
  /\ ~cyanide
  /\ IF timer # "null"
       THEN timer' = "null" /\ UNCHANGED cyanide
       ELSE cyanide' = TRUE /\ UNCHANGED timer
  /\ released' = TRUE
  /\ UNCHANGED <<board, extraVars, chainVars, selVars, enVars, obVars, numInputs, currentInput,
                 orphans, threads, hbCalls, ioVars, rotSteps, tickVars, lastRead>>

\* setOutputs_control(outputs, callback)
IOSetOutputs ==
  \E outputs \in IORequests :
    /\ inARow' = IF ctl.outputs = outputs /\ inARow > 0
                   THEN (IF inARow < 2 THEN inARow + 1 ELSE inARow)
                   ELSE 1
    /\ IF IO_validate(outputs) = "threw"
         THEN /\ ctl' = [outputs |-> outputs, result |-> "threw"]
              /\ UNCHANGED <<attrs, ic595Array, outputQueued, qRetries, timer, threads,
                             tickVars>>
         ELSE /\ currentOutputLatch = 1 => qRetries < MaxRetries
              /\ ctl' = [outputs |-> outputs, result |-> "ok"]
              /\ attrs' = SetAttrs(attrs, outputs)
              /\ IO_queueOutputs(qRetries)
              /\ IF timer # "null"
                   THEN IO_nextHeartbeat
                   ELSE UNCHANGED <<timer, threads, tickVars>>
    /\ UNCHANGED <<board, extraVars, first595, valuesRef, sh, lastSet, nSets, selVars, enVars, reqs,
                   isSendingNow, isDisabled, numInputs, currentInput, orphans, cyanide,
                   hbCalls, currentOutputLatch, rotSteps, lastRead, released>>

\* a 10 ms timer set by queueOutputs fires and runs queueOutputs again
IOQueueRetry ==
  /\ qRetries > 0
  /\ attrs' = attrs
  /\ IO_queueOutputs(qRetries - 1)
  /\ UNCHANGED <<board, extraVars, first595, valuesRef, sh, lastSet, nSets, selVars, enVars, reqs,
                 ctl, isSendingNow, isDisabled, hbVars, currentOutputLatch, inARow,
                 histVars>>

NextIO ==
  \/ IOReadDone
  \/ IOBusDone
  \/ IOTimerFires
  \/ IORelease
  \/ IOSetOutputs
  \/ IOQueueRetry

SpecIO == InitIO /\ [][NextIO]_vars

\* the I/O board when every hardware call eventually calls back and the
\* heartbeat timer eventually fires
SpecIOFair == SpecIO /\ WF_vars(IOReadDone) /\ WF_vars(IOBusDone) /\ WF_vars(IOTimerFires)

-----------------------------------------------------------------------------
(* Either heartbeat board, driven by its timer and its callers              *)

InitHb == InitIn \/ InitIO

NextHb ==
  \/ board = "input" /\ NextIn
  \/ board = "io" /\ NextIO

SpecHb == InitHb /\ [][NextHb]_vars

\* a hardware call of a heartbeat calls back: a read, a write of the
\* selector, a bus call of the shiftOut
HwCallback ==
  \/ board = "input" /\ (InReadDone \/ InSwitchWriteDone)
  \/ board = "io" /\ (IOReadDone \/ IOBusDone)

\* either heartbeat board when every hardware call eventually calls back
SpecHbFair == SpecHb /\ WF_vars(HwCallback)

-----------------------------------------------------------------------------
(* Stand-alone chain: a caller that stages bits with set() and calls       *)
(* shiftOut() when no shiftOut is outstanding.                             *)

InitChain ==
  /\ board = "chain"
  /\ ExtraUnused
  /\ \E n \in 1..MaxChips : ic595Array \in [1..n -> InitBytes]
  /\ first595 = <<0>>
  /\ valuesRef = "array"
  /\ sh = NoShift
  /\ lastSet = NoSet
  /\ nSets = 0
  /\ SelUnused
  /\ EnUnused
  /\ OBUnused
  /\ HbUnused

ChainSet ==
  /\ nSets < MaxSets
  /\ \E pin \in 0..(Len(values) * 8 - 1), v \in {0, 1} :
       /\ ic595Array' = IC595_set(values, pin, v)
       /\ lastSet' = [pin |-> pin, value |-> v, prev |-> values]
  /\ nSets' = nSets + 1
  /\ UNCHANGED <<board, extraVars, first595, valuesRef, sh, notChain>>

ChainShiftOut ==
  /\ ~Shifting(sh)
  /\ sh' = IC595_shiftOut(values)
  /\ UNCHANGED <<board, extraVars, ic595Array, first595, valuesRef, lastSet, nSets, notChain>>

ChainByteDone ==
  /\ sh.pc = "byte"
  /\ \E ok \in BOOLEAN : sh' = IC595_shift_cb(sh, values, ok)
  /\ UNCHANGED <<board, extraVars, ic595Array, first595, valuesRef, lastSet, nSets, notChain>>

ChainLatchHighDone ==
  /\ sh.pc = "latchHigh"
  /\ \E ok \in BOOLEAN : sh' = IC595_latchHigh_cb(sh, ok)
  /\ UNCHANGED <<board, extraVars, ic595Array, first595, valuesRef, lastSet, nSets, notChain>>

ChainLatchLowDone ==
  /\ sh.pc = "latchLow"
  /\ \E ok \in BOOLEAN : sh' = IC595_latchLow_cb(sh, ok)
  /\ UNCHANGED <<board, extraVars, ic595Array, first595, valuesRef, lastSet, nSets, notChain>>

NextChain ==
  \/ ChainSet
  \/ ChainShiftOut
  \/ ChainByteDone
  \/ ChainLatchHighDone
  \/ ChainLatchLowDone

SpecChain == InitChain /\ [][NextChain]_vars

-----------------------------------------------------------------------------
(* Stand-alone chain, every operation: set() of any pin number, shiftOut() *)
(* and clearOutput(), called once the bus calls of the previous shiftOut   *)
(* or clearOutput have completed.                                          *)

\* pin numbers a caller passes to set: inside and beyond the longest chain
SetPins == {0, 7, 8, MaxChips * 8 - 1, MaxChips * 8, MaxChips * 8 + 9}

\* what set(pin, value) gives its caller: it checks no range and throws nothing
IC595_set_returns(vals, pin) == "done"

EvClear(level)     == [ev |-> "clear", chip |-> 0 - 1, val |-> level]
EvClearDone(level) == [ev |-> "clearDone", chip |-> 0 - 1, val |-> level]

\* a software clear that leaves the chip nearest the controller as it is (mutant)
IC595_clear_values_butFirst(vals) == [i \in 1..Len(vals) |-> IF i = 1 THEN vals[i] ELSE 0]

\* clearOutput without a clear pin: every element of t.values becomes 0
IC595_clear_values(vals) == [i \in 1..Len(vals) |-> 0]

\* clearOutput up to its return: the software clear has called shiftOut, the
\* hardware clear has issued the write of the clear line LOW
IC595_clearOutput(hasClearPin) ==
  IF hasClearPin
    THEN [pc |-> "low", log |-> <<EvClear(0)>>, result |-> "none", shifts |-> 0]
    ELSE [pc |-> "shift", log |-> <<>>, result |-> "none", shifts |-> 1]

\* the callbacks of the two writes of the clear line
IC595_clear_cb(c, ok) ==
  IF ~ok
    THEN [c EXCEPT !.pc = "done", !.result = "error",
                   !.log = Append(c.log, EvClearDone(IF c.pc = "low" THEN 0 ELSE 1))]
    ELSE IF c.pc = "low"
      THEN [c EXCEPT !.pc = "high", !.log = c.log \o <<EvClearDone(0), EvClear(1)>>]
      ELSE [c EXCEPT !.pc = "done", !.result = "ok",
                     !.log = Append(c.log, EvClearDone(1))]

\* a clearOutput is waiting for a write of the clear line
Clearing(c) == c.pc \in {"low", "high"}

InitChainOps ==
  /\ board = "chainOps"
  /\ \E n \in 1..MaxChips : ic595Array \in [1..n -> InitBytes]
  /\ pinsClear \in BOOLEAN
  /\ clr = NoClear
  /\ first595 = <<0>>
  /\ valuesRef = "array"
  /\ sh = NoShift
  /\ lastSet = NoSet
  /\ nSets = 0
  /\ BbUnused
  /\ EnOpUnused
  /\ PinsUnused
  /\ SelUnused
  /\ EnUnused
  /\ OBUnused
  /\ HbUnused

\* what the operations of the chain leave alone
notChainOps == <<first595, valuesRef, bb, lastBB, pinsClear, oe, encalls, pinCall, notChain>>

\* set(pin, v)
ChainOpsSet ==
  /\ nSets < MaxSets
  /\ \E pin \in SetPins, v \in {0, 1} :
       /\ ic595Array' = IC595_set(values, pin, v)
       /\ lastSet' = [pin |-> pin, value |-> v, prev |-> values,
                      result |-> IC595_set_returns(values, pin)]
  /\ nSets' = nSets + 1
  /\ UNCHANGED <<board, sh, clr, notChainOps>>

\* shiftOut(callback)
ChainOpsShiftOut ==
  /\ ~Shifting(sh)
  /\ ~Clearing(clr)
  /\ sh' = IC595_shiftOut(values)
  /\ UNCHANGED <<board, ic595Array, lastSet, nSets, clr, notChainOps>>

\* a bus call of the shiftOut completes; the shiftOut of a software clear
\* calls back the caller of clearOutput
ChainOpsBusDone ==
  /\ Shifting(sh)
  /\ \E ok \in BOOLEAN : sh' = IC595_step(sh, values, ok)
  /\ clr' = IF clr.pc = "shift" /\ sh'.pc = "done"
              THEN [clr EXCEPT !.pc = "done", !.result = sh'.result]
              ELSE clr
  /\ UNCHANGED <<board, ic595Array, lastSet, nSets, notChainOps>>

\* clearOutput(callback)
ChainOpsClear ==
  /\ ~Shifting(sh)
  /\ ~Clearing(clr)
  /\ clr' = IC595_clearOutput(pinsClear)
  /\ IF pinsClear
       THEN UNCHANGED <<ic595Array, sh>>
       ELSE /\ ic595Array' = IC595_clear_values(values)
            /\ sh' = IC595_shiftOut(ic595Array')
  /\ UNCHANGED <<board, lastSet, nSets, notChainOps>>

\* a write of the clear line completes
ChainOpsClearWriteDone ==
  /\ Clearing(clr)
  /\ \E ok \in BOOLEAN : clr' = IC595_clear_cb(clr, ok)
  /\ UNCHANGED <<board, ic595Array, sh, lastSet, nSets, notChainOps>>

NextChainOps ==
  \/ ChainOpsSet
  \/ ChainOpsShiftOut
  \/ ChainOpsBusDone
  \/ ChainOpsClear
  \/ ChainOpsClearWriteDone

SpecChainOps == InitChainOps /\ [][NextChainOps]_vars

-----------------------------------------------------------------------------
(* Stand-alone chain: enableOutput() and disableOutput(), called in any    *)
(* order and without waiting for one another.  oe counts the pinMode calls *)
(* made for the enable pin and holds the level the last successful         *)
(* digitalWrite drove onto it (a set, empty while none has); each call     *)
(* keeps, once it has called back, the level held at that moment.          *)

\* the level a call drives: LOW enables, HIGH disables
EnLevel(op) == IF op = "enable" THEN 0 ELSE 1

\* BBUtil.initGPIO writes the initial value only if pin.value is truthy
BB_initGPIO_writes(value) == value # 0

\* the callback of that write tests err & err.err, which is 0 for every
\* outcome: a failed write is taken for a success
BB_initGPIO_write_ok(ok) == TRUE

\* enableOutput / disableOutput up to its return
IC595_enable_call(op, hasPin, en) ==
  IF ~hasPin
    THEN [op |-> op, pc |-> "done", result |-> "ok", configured |-> FALSE,
          level |-> {}]
    ELSE [op |-> op, pc |-> IF en = "undefined" THEN "mode" ELSE "write",
          result |-> "none", configured |-> en = "undefined", level |-> {}]

\* the call c has called back with result, the enable pin last written as w
EnDone(c, result, w) == [c EXCEPT !.pc = "done", !.result = result, !.level = w]

\* a digitalWrite of the enable pin has been issued
EnDriven ==
  \/ oe.written # {}
  \/ \E k \in DOMAIN encalls : encalls[k].pc \in {"initWrite", "write"}

InitEn ==
  /\ board = "enable"
  /\ pinsEnable \in BOOLEAN
  /\ enabled = "undefined"
  /\ oe = NoDrive
  /\ encalls = <<>>
  /\ BbUnused
  /\ ClrUnused
  /\ PinsUnused
  /\ ChainUnused
  /\ SelUnused
  /\ OBUnused
  /\ HbUnused

notEn == <<bb, lastBB, pinsClear, clr, pinCall, chainVars, selVars, pinsEnable, obVars, hbVars,
           ioVars, histVars>>

\* enableOutput(callback) or disableOutput(callback)
EnCall ==
  /\ Len(encalls) < MaxEnCalls
  /\ \E op \in {"enable", "disable"} :
       LET c == IC595_enable_call(op, pinsEnable, enabled) IN
         /\ encalls' = Append(encalls, c)
         /\ oe' = IF c.configured
                    THEN [oe EXCEPT !.modes = oe.modes + 1,
                                    !.modeAfterWrite = oe.modeAfterWrite \/ EnDriven]
                    ELSE oe
  /\ UNCHANGED <<board, enabled, notEn>>

\* the pinMode of initGPIO completes: an error ends the call; otherwise the
\* initial value is written if it is HIGH, and if not the call has succeeded
EnModeDone ==
  \E k \in DOMAIN encalls, ok \in BOOLEAN :
    /\ encalls[k].pc = "mode"
    /\ IF ~ok
         THEN /\ encalls' = [encalls EXCEPT ![k] = EnDone(encalls[k], "error", oe.written)]
              /\ UNCHANGED enabled
         ELSE IF BB_initGPIO_writes(EnLevel(encalls[k].op))
           THEN /\ encalls' = [encalls EXCEPT ![k].pc = "initWrite"]
                /\ UNCHANGED enabled
           ELSE /\ encalls' = [encalls EXCEPT ![k] = EnDone(encalls[k], "ok", oe.written)]
                /\ enabled' = IF encalls[k].op = "enable" THEN "true" ELSE "false"
    /\ UNCHANGED <<board, oe, notEn>>

\* a digitalWrite of the enable pin completes: the one of initGPIO, or the
\* one enableOutput / disableOutput issue once the pin is initialized
EnWriteDone ==
  \E k \in DOMAIN encalls, ok \in BOOLEAN :
    /\ encalls[k].pc \in {"initWrite", "write"}
    /\ oe' = IF ok THEN [oe EXCEPT !.written = {EnLevel(encalls[k].op)}] ELSE oe
    /\ IF ok \/ (encalls[k].pc = "initWrite" /\ BB_initGPIO_write_ok(ok))
         THEN /\ encalls' = [encalls EXCEPT ![k] = EnDone(encalls[k], "ok", oe'.written)]
              /\ enabled' = IF encalls[k].op = "enable" THEN "true" ELSE "false"
         ELSE /\ encalls' = [encalls EXCEPT ![k] = EnDone(encalls[k], "error", oe'.written)]
              /\ UNCHANGED enabled
    /\ UNCHANGED <<board, notEn>>

NextEn ==
  \/ EnCall
  \/ EnModeDone
  \/ EnWriteDone

SpecEn == InitEn /\ [][NextEn]_vars

-----------------------------------------------------------------------------
(* Stand-alone selector: a caller that calls switch(p) for any position    *)
(* once the writes of the previous call have all completed.  The selector  *)
(* has been constructed with position 0.                                   *)

\* positions a caller asks for: every valid one, and one on each side
SwitchPositions == (0 - 1)..(MaxPosition + 1)

InitSel ==
  /\ board = "selector"
  /\ ExtraUnused
  /\ selPins \in [data2 : BOOLEAN, data3 : BOOLEAN]
  /\ position = 0
  /\ lineLevel = [i \in 0..3 |-> 0]
  /\ sw = NoSwitch
  /\ ChainUnused
  /\ EnUnused
  /\ OBUnused
  /\ HbUnused

SelSwitch ==
  /\ sw.pending = {}
  /\ \E p \in SwitchPositions : sw' = IC4067_switch(selPins, position, p)
  /\ UNCHANGED <<board, extraVars, selPins, position, lineLevel, notSel>>

\* one digitalWrite of the switch completes; a failed write leaves the line
\* at either level
SelWriteDone ==
  /\ \E line \in sw.pending, ok \in BOOLEAN :
       /\ sw' = IC4067_whenSet(sw, line, ok)
       /\ \E lv \in (IF ok THEN {WrittenTo(sw, line)} ELSE {0, 1}) :
            lineLevel' = [lineLevel EXCEPT ![line] = lv]
  /\ position' = IF sw.result = "none" /\ sw'.result = "ok" THEN sw.p ELSE position
  /\ UNCHANGED <<board, extraVars, selPins, notSel>>

NextSel ==
  \/ SelSwitch
  \/ SelWriteDone

SpecSel == InitSel /\ [][NextSel]_vars

-----------------------------------------------------------------------------
(* Reading a shift log *)

\* the events of kind k in a log, in order
RECURSIVE EventsOf(_, _)
EventsOf(log, k) ==
  IF log = <<>> THEN <<>>
  ELSE IF Head(log).ev = k THEN <<Head(log)>> \o EventsOf(Tail(log), k)
       ELSE EventsOf(Tail(log), k)

\* the chip indices n-1, n-2, ..., n-m
Decreasing(n, m) == [i \in 1..m |-> n - i]

\* the chips whose byte transfer the log starts, in order
ChipsOf(log) == [i \in 1..Len(EventsOf(log, "byte")) |-> EventsOf(log, "byte")[i].chip]

\* every transfer after the first starts right after the previous one completed
StartsAfterCompletion(log) ==
  \A i \in 2..Len(log) :
     log[i].ev = "byte" =>
        /\ log[i - 1].ev = "byteDone"
        /\ log[i - 1].chip = log[i].chip + 1

\* the order of one shiftOut on a chain of n chips, as far as it has got
ShiftOrderOk(s, n) ==
  /\ Len(ChipsOf(s.log)) <= n
  /\ ChipsOf(s.log) = Decreasing(n, Len(ChipsOf(s.log)))
  /\ StartsAfterCompletion(s.log)
  /\ (s.pc \in {"latchHigh", "latchLow"} \/ s.result \in {"ok", "error"})
        => ChipsOf(s.log) = Decreasing(n, n)

\* the latch writes of one shiftOut, as far as it has got
LatchOk(s) ==
  LET latches == EventsOf(s.log, "latch")
      firstLatch == CHOOSE i \in 1..Len(s.log) : s.log[i].ev = "latch"
  IN  /\ Len(latches) <= 2
      /\ Len(latches) >= 1 => latches[1].val = 1
      /\ Len(latches) = 2 => latches[2].val = 0
      /\ Len(latches) >= 1 =>
            /\ s.log[firstLatch - 1] = EvByteDone(0)
            /\ \A j \in firstLatch..Len(s.log) : s.log[j].ev \in {"latch", "latchDone"}
      /\ s.result = "ok" =>
            /\ Len(latches) = 2
            /\ s.log[Len(s.log)] = EvLatchDone(0)
            /\ s.log[Len(s.log) - 1] = EvLatch(0)
            /\ s.log[Len(s.log) - 2] = EvLatchDone(1)

-----------------------------------------------------------------------------
(* C1: after IC74HC595.set(b, v) with b < c*8 and v in {0,1}, get(b) is v   *)
(* and get(b') is what it was before for every other bit b' of the chain,  *)
(* in the same chip or in another one.                                     *)
C1_SetThenGet ==
  lastSet # NoSet =>
    /\ Len(values) = Len(lastSet.prev)
    /\ IC595_get(values, lastSet.pin) = lastSet.value
    /\ \A b \in 0..(Len(values) * 8 - 1) :
          b # lastSet.pin => IC595_get(values, b) = IC595_get(lastSet.prev, b)

\* a set of a bit of the second chip that changed that bit, other chips present
C1_Witness ==
  /\ lastSet # NoSet
  /\ lastSet.pin >= 8
  /\ IC595_get(lastSet.prev, lastSet.pin) # lastSet.value
  /\ IC595_get(values, 0) = 1

(* C2: shiftOut on a chain of n chips transfers the bytes of chips n-1,    *)
(* n-2, ..., 0 in that strictly decreasing order, each chip once, and each *)
(* transfer starts only after the transfer of the previous chip completed. *)
C2_ShiftOrder ==
  board = "chain" => ShiftOrderOk(sh, Len(values))

\* a two-chip shiftOut that has transferred both bytes and completed
C2_Witness ==
  /\ board = "chain"
  /\ Len(values) = 2
  /\ sh.result = "ok"
  /\ ChipsOf(sh.log) = <<1, 0>>

(* C3: in every successful shiftOut the latch is written HIGH and then LOW *)
(* exactly once, the HIGH write is issued only after the byte of chip 0    *)
(* has been transferred, and no latch write lies between two transfers.    *)
C3_LatchPulse ==
  board = "chain" => LatchOk(sh)

\* a successful two-chip shiftOut
C3_Witness ==
  /\ board = "chain"
  /\ Len(values) = 2
  /\ sh.result = "ok"
  /\ Len(EventsOf(sh.log, "latch")) = 2

-----------------------------------------------------------------------------
(* Reading a switch record *)

\* the select lines the configuration names
ConfiguredLines(pins) ==
  {0, 1} \cup (IF pins.data2 THEN {2} ELSE {}) \cup (IF pins.data3 THEN {3} ELSE {})

\* the select lines the driver can address: data3 counts only next to data2
AddressedLines(pins) ==
  {0, 1} \cup (IF pins.data2 THEN {2} ELSE {})
         \cup (IF pins.data2 /\ pins.data3 THEN {3} ELSE {})

\* the highest position n select lines can encode
CapOf(n) == 2 ^ n - 1

\* a switch call has been made and sw describes it
Switched == sw # NoSwitch

\* the call was rejected without touching anything
RejectedCleanly ==
  /\ sw.result = "range"
  /\ sw.issued = {}
  /\ sw.pending = {}
  /\ position = sw.posBefore

(* C6 as stated: switch(p) is accepted exactly for 0 <= p <= maxPosition,  *)
(* maxPosition being 3, 7 or 15 for 2, 3 or 4 configured select lines, and *)
(* any other p ends in a range error with no line written and the stored   *)
(* position unchanged.                                                     *)
C6_RangeByLineCount ==
  (board = "selector" /\ Switched) =>
    IF 0 <= sw.p /\ sw.p <= CapOf(Cardinality(ConfiguredLines(selPins)))
      THEN sw.result # "range"
      ELSE RejectedCleanly

(* C6 amended: maxPosition is 3 when data2 is not configured (data3 is     *)
(* then ignored), 7 when data2 is configured without data3, and 15 when    *)
(* data2 and data3 are both configured.                                    *)
C6_RangeByAddressedLines ==
  (board = "selector" /\ Switched) =>
    IF 0 <= sw.p /\ sw.p <= CapOf(Cardinality(AddressedLines(selPins)))
      THEN sw.result # "range"
      ELSE RejectedCleanly

\* a 2-line selector has rejected position 4
C6_Witness ==
  /\ board = "selector"
  /\ selPins = [data2 |-> FALSE, data3 |-> FALSE]
  /\ sw.p = 4
  /\ sw.result = "range"
  /\ position = 3

\* an accepted switch drove exactly the lines ls, line i with bit i of p, and
\* reports success only with all of them set, the stored position being p
DroveLines(ls) ==
  /\ sw.issued = {<<i, (sw.p \div (2 ^ i)) % 2>> : i \in ls}
  /\ sw.result = "ok" =>
        /\ sw.okLines = ls
        /\ sw.pending = {}
        /\ position = sw.p
        /\ \A i \in ls : lineLevel[i] = (sw.p \div (2 ^ i)) % 2

(* C7 as stated: an accepted switch(p) writes every configured select line *)
(* i with (p >> i) & 1, succeeds only after all those writes succeeded,    *)
(* and on success the stored position is p.                                *)
C7_WritesConfiguredLines ==
  (board = "selector" /\ Switched /\ sw.result # "range") =>
     DroveLines(ConfiguredLines(selPins))

(* C7 amended: the lines written are data0, data1, data2 when configured,  *)
(* and data3 when configured together with data2.                          *)
C7_WritesAddressedLines ==
  (board = "selector" /\ Switched /\ sw.result # "range") =>
     DroveLines(AddressedLines(selPins))

\* a 4-line selector has switched from position 0 to 10
C7_Witness ==
  /\ board = "selector"
  /\ selPins = [data2 |-> TRUE, data3 |-> TRUE]
  /\ sw.p = 10
  /\ sw.result = "ok"
  /\ position = 10
  /\ lineLevel = [i \in 0..3 |-> IF i \in {1, 3} THEN 1 ELSE 0]

-----------------------------------------------------------------------------
(* Reading the output board *)

\* the index (from 1) of the configured output called n
OutputIndex(n) == CHOOSE k \in 1..Len(BoardOutputs) : BoardOutputs[k].name = n

\* the register bit an output holds when it is driven with value v
BitFor(k, v) == IF BoardOutputs[k].inverse THEN 1 - v ELSE v

\* the request r has been flushed successfully and has called back
Flushed(r) == r.state = "done" /\ r.sh.result = "ok"

\* the value the request r asks for the output called n
RequestedValue(r, n) ==
  r.outputs[CHOOSE k \in 1..Len(r.outputs) :
              /\ r.outputs[k].name = n
              /\ \A m \in (k + 1)..Len(r.outputs) : r.outputs[m].name # n].value

RequestedNames(r) == {r.outputs[k].name : k \in 1..Len(r.outputs)}

\* the shiftOut transactions outstanding on the register chain
OutstandingShifts == {i \in DOMAIN reqs : reqs[i].state = "shift"}

(* C9: after a successful setOutputs has been flushed (and no later request *)
(* has been accepted), the register bit of every output it names is the    *)
(* requested value, complemented for an inverse output.                    *)
C9_FlushedBitsMatchRequest ==
  board = "output" =>
    \A i \in DOMAIN reqs :
       (Flushed(reqs[i]) /\ reqs[i].latest) =>
          \A n \in RequestedNames(reqs[i]) :
             IC595_get(values, OutputIndex(n) - 1)
               = BitFor(OutputIndex(n), RequestedValue(reqs[i], n))

\* lib/index.js keeps the shiftOuts of the output board apart
OB_OneShiftAtATime == board = "output" => Cardinality(OutstandingShifts) <= 1

(* C4: on an output board, under any interleaving of set requests with bus *)
(* completions, at most one shiftOut transaction is outstanding: a new     *)
(* shiftOut never starts before the latch pulse of the previous one has    *)
(* completed.                                                              *)
C4_OneShiftOutstanding ==
  board \in {"output", "outputProbe"} => Cardinality(OutstandingShifts) <= 1

(* C5: a call of nextHeartbeat made while a tick is in flight (from the     *)
(* first read of the tick to its completion, the phases at position 0      *)
(* included) is discarded: it issues no read and no switch, and it leaves  *)
(* currentInput, the timer and the published values as they were.          *)
C5_CallInFlightDiscarded ==
  [][(hbCalls' # hbCalls /\ TickInFlight)
       => UNCHANGED <<threads, currentInput, timer, position, lineLevel, attrs>>]_vars

\* what a rejected set request must leave alone: the published values, the
\* staged register bits, the queue of flushes and the bus
RequestState ==
  <<attrs, ic595Array, first595, valuesRef, reqs, isSendingNow, threads,
    outputQueued, qRetries, currentOutputLatch, timer>>

(* C8: a set request that names an output that is not configured, or       *)
(* carries a value that is not exactly 0 or 1, completes with an error and *)
(* changes nothing: nothing is published, no register bit is staged, no    *)
(* flush is queued and no bus transaction is started.                      *)
C8_InvalidRequestRejected ==
  [][(ctl' # ctl /\ ctl'.outputs \in InvalidRequests)
       => (ctl'.result = "error" /\ UNCHANGED RequestState)]_vars

(* C10: after setOutputs({o0: 1}) has been called twice in a row with no   *)
(* read in between, the board holds exactly one queued flush: both calls   *)
(* succeeded and the outputs are queued once for the next rotation.        *)
C10_TwiceQueuesOnce ==
  (board = "io" /\ inARow = 2 /\ ctl.outputs = <<Entry("o0", 1)>>)
    => (ctl.result = "ok" /\ outputQueued /\ qRetries = 0)

-----------------------------------------------------------------------------
(* Heartbeat claims *)

HeartbeatBoard == board \in {"input", "io"}

(* C11: with N configured inputs currentInput always lies in 0..N-1, and   *)
(* it is 0 exactly when the number of rotation steps taken is a multiple   *)
(* of N: from 0 it is 0 again after exactly N rotation steps, output       *)
(* flushes or not.                                                         *)
C11_RotationReturns ==
  HeartbeatBoard =>
    /\ currentInput \in 0..(numInputs - 1)
    /\ currentInput = 0 <=> rotSteps = 0

\* a heartbeat of two inputs whose closing step flushed outputs is back at 0
C11_Witness ==
  /\ board = "io"
  /\ numInputs = 2
  /\ Len(tickReads) = 2
  /\ afterFlush = 0
  /\ currentInput = 0
  /\ rotSteps = 0

\* the positions 0..n-1 in increasing order
OneRound(n) == [k \in 1..n |-> k - 1]

\* the reads are whole or partial rounds, each in increasing order from 0
InRounds(reads, n) == \A j \in 1..Len(reads) : reads[j] = (j - 1) % n

(* C12 as stated: a completed tick has read the positions 0, 1, ..., N-1   *)
(* exactly once each, in increasing order.                                 *)
C12_TickReadsEachOnce ==
  (HeartbeatBoard /\ tickEnd = "complete") => tickReads = OneRound(numInputs)

(* C12: a tick reads the positions in increasing order from 0, round by    *)
(* round; a completed tick has read whole rounds and is back at position   *)
(* 0: exactly one round on the InputBoard, and on the I/O board more than  *)
(* one round only when a closing step flushed queued outputs.              *)
C12_TickReadsInRounds ==
  HeartbeatBoard =>
    /\ InRounds(tickReads, numInputs)
    /\ tickEnd = "complete" =>
         /\ currentInput = 0
         /\ Len(tickReads) >= numInputs
         /\ Len(tickReads) < MaxReads => Len(tickReads) % numInputs = 0
         /\ board = "input" => tickReads = OneRound(numInputs)
         /\ Len(tickReads) > numInputs => afterFlush # NoFlush

\* a completed tick of the I/O board that read both positions twice
C12_Witness ==
  /\ board = "io"
  /\ numInputs = 2
  /\ tickEnd = "complete"
  /\ tickReads = <<0, 1, 0, 1>>

(* C13: on the I/O board a queueOutputs call that arrives while the latch  *)
(* bit is up (it schedules a retry) is deferred: it changes neither the    *)
(* staged register bytes nor outputQueued.                                 *)
C13_QueueDeferredWhileLatched ==
  [][(board = "io" /\ currentOutputLatch = 1 /\ qRetries' > qRetries)
       => UNCHANGED <<ic595Array, outputQueued>>]_vars

\* a step in which rotateInput runs: a read completes and a shiftOut starts
RotationStep ==
  \E i \in DOMAIN threads : threads[i].pc = "read" /\ threads'[i].pc = "shift"

(* C14 as stated: on the I/O board only the closing rotation step of a     *)
(* tick (currentInput back at 0) shifts the output chips or raises the     *)
(* latch bit.                                                              *)
C14_FlushOnlyInClosingStep ==
  [][(board = "io" /\ RotationStep /\ currentInput' # 0)
       => (currentOutputLatch' = 0 /\ valuesRef' = "first")]_vars

(* C14: on the I/O board a rotation step, whatever its position, shifts    *)
(* the output chips and raises the latch bit exactly when outputs are      *)
(* queued as it starts, and it empties the queue; with nothing queued it   *)
(* shifts the controller chip alone with the latch bit down.               *)
C14_FlushInNextRotationStep ==
  [][(board = "io" /\ RotationStep)
       => /\ currentOutputLatch' = 1 <=> outputQueued
          /\ valuesRef' = "array" <=> outputQueued
          /\ valuesRef' = "first" <=> ~outputQueued
          /\ outputQueued' = FALSE
          /\ IC595_get(values', 7) = currentOutputLatch']_vars

\* outputs are being flushed by a rotation step that is not the closing one
C14_Witness ==
  /\ board = "io"
  /\ currentInput = 1
  /\ currentOutputLatch = 1
  /\ valuesRef = "array"
  /\ \E i \in DOMAIN threads : threads[i].pc = "shift"

(* C15 as stated: a tick whose closing step flushed outputs with the latch *)
(* bit up completes after exactly one further shift cycle.                 *)
C15_OneMoreShiftCycle ==
  (board = "io" /\ tickEnd = "complete" /\ afterFlush # NoFlush) => afterFlush = 1

(* C15: a tick whose closing step flushed outputs with the latch bit up is *)
(* not complete: it completes, and the timer is re-armed, only after one   *)
(* further round of N shift cycles, the last of them with the latch bit    *)
(* down.                                                                   *)
C15_OneMoreRound ==
  (board = "io" /\ afterFlush # NoFlush) =>
    /\ afterFlush \in 0..numInputs
    /\ (tickEnd = "complete" \/ timer = "armed") =>
         (afterFlush = numInputs /\ currentOutputLatch = 0)

\* a tick of two inputs has completed two shift cycles after its closing flush
C15_Witness ==
  /\ board = "io"
  /\ numInputs = 2
  /\ tickEnd = "complete"
  /\ timer = "armed"
  /\ afterFlush = 2

ReadDoneStep(i) == threads[i].pc = "read" /\ threads'[i] # threads[i]

(* C17: a failed read inside a tick publishes nothing, leaving every       *)
(* published value as it was, and the tick goes on: the position is        *)
(* rotated and the switch (or shift) to the next position is issued.       *)
C17_FailedReadSkipsPublish ==
  [][\A i \in DOMAIN threads :
       (HeartbeatBoard /\ ReadDoneStep(i) /\ lastRead'.x = ReadError)
         => /\ attrs' = attrs
            /\ ~lastRead'.published
            /\ currentInput' = (currentInput + 1) % numInputs
            /\ threads'[i].pc \in {"switch", "shift"}]_vars

\* the read of position 0 failed and the tick is reading position 1
C17_Witness ==
  /\ HeartbeatBoard
  /\ numInputs = 2
  /\ lastRead.pos = 0
  /\ lastRead.x = ReadError
  /\ currentInput = 1
  /\ tickEnd = "running"
  /\ \E i \in DOMAIN threads : threads[i].pc = "read"

(* C18: on the InputBoard a value is published under the name of input k  *)
(* only if the selector was set to position k before that read: at every   *)
(* publishing read the channel addressed by the select lines is the        *)
(* position the value is published for.                                    *)
C18_PublishOnlyFromSelectedChannel ==
  (board = "input" /\ lastRead.published) => lastRead.sel = lastRead.pos

\* r is x rounded to p decimal digits (x and r in units of 1/10000)
RoundedTo(x, p, r) ==
  LET q == 10 ^ (4 - p)
  IN  r % q = 0 /\ 2 * (r - x) <= q /\ 2 * (x - r) <= q

\* the digits an input retains: its precision, 3 when none is configured
PrecisionOf(k) ==
  IF BoardInputs[k + 1].precision = undefined THEN 3 ELSE BoardInputs[k + 1].precision

\* the step is a successful read of thread i that leaves the rounded reading
\* published, publishing exactly when that differs from what was published
PublishesRounded(i) ==
  (ReadDoneStep(i) /\ lastRead'.x # ReadError) =>
    LET name == BoardInputs[currentInput + 1].name
        p == PrecisionOf(currentInput)
    IN  /\ RoundedTo(lastRead'.x, p, attrs'[name])
        /\ lastRead'.published <=> ~RoundedTo(lastRead'.x, p, attrs[name])
        /\ ~lastRead'.published => attrs' = attrs
        /\ \A n \in DOMAIN attrs \ {name} : attrs'[n] = attrs[n]

\* the same for a board that publishes the reading as it was read
PublishesRaw(i) ==
  (ReadDoneStep(i) /\ lastRead'.x # ReadError) =>
    LET name == BoardInputs[currentInput + 1].name
    IN  /\ attrs'[name] = lastRead'.x
        /\ lastRead'.published <=> lastRead'.x # attrs[name]
        /\ ~lastRead'.published => attrs' = attrs
        /\ \A n \in DOMAIN attrs \ {name} : attrs'[n] = attrs[n]

(* C19 as stated: on either board a successful read of input k publishes   *)
(* the reading rounded to the precision of k, and only if that differs     *)
(* from the value published for k.                                         *)
C19_PublishRounded ==
  [][\A i \in DOMAIN threads : HeartbeatBoard => PublishesRounded(i)]_vars

(* C19: on the InputBoard a successful read of input k publishes the       *)
(* reading rounded to the precision of k (3 digits by default), and only   *)
(* if that differs from the value published for k; the I/O board does the  *)
(* same with the reading as it was read, without rounding.                 *)
C19_PublishRoundedOnInputBoard ==
  [][\A i \in DOMAIN threads :
       /\ board = "input" => PublishesRounded(i)
       /\ board = "io" => PublishesRaw(i)]_vars

\* input 0 (two digits) holds 0.12 published and a read of 0.1204 has just
\* been skipped as no change
C19_Witness ==
  /\ board = "input"
  /\ lastRead.pos = 0
  /\ lastRead.x = 1204
  /\ ~lastRead.published
  /\ attrs["i0"] = 1200

\* the flush of the request r has failed: its shiftOut or its enabling step
\* ended with an error or an exception
FlushFailed(r) == r.state \in {"done", "threw"} /\ r.sh.result # "ok"

(* C20: when the shiftOut or the enabling step performed for a set request *)
(* of an output board fails, the callback of that request receives the     *)
(* error.                                                                  *)
C20_FlushErrorSurfaced ==
  board \in {"output", "outputProbe"} =>
    \A i \in DOMAIN reqs : FlushFailed(reqs[i]) => reqs[i].cb = "error"

-----------------------------------------------------------------------------
(* Companion claims *)

\* the entries of a request name each of the names ns once
NamesOnce(outputs, ns) ==
  /\ {outputs[k].name : k \in 1..Len(outputs)} = ns
  /\ Len(outputs) = Cardinality(ns)

\* an onBBChange call has been made and lastBB describes it
BBChanged == lastBB # NoBBChange

(* C21: onBBChange passes to set_control exactly the configured outputs    *)
(* whose companion value differs from the local one, with the companion    *)
(* value, and calls set_control only if there is one; and the change event *)
(* caused by mirroring a completed set into the companion finds no         *)
(* difference, so that it triggers no further write.                       *)
C21_MirrorCausesNoWrite ==
  (board = "outputMirror" /\ BBChanged) =>
    /\ NamesOnce(lastBB.changes,
                 {n \in validOutputNames : lastBB.remote[n] # lastBB.local[n]})
    /\ \A k \in 1..Len(lastBB.changes) :
          lastBB.changes[k].value = lastBB.remote[lastBB.changes[k].name]
    /\ lastBB.cause = "mirror" => lastBB.changes = <<>>

(* C22: on the output board a write request that arrives while a bus     *)
(* transaction is in flight is queued and gets the bus once it is free: a  *)
(* request waiting to retry is never stranded, the busy flag it waits for  *)
(* being held by a shiftOut that is still outstanding and whose completion *)
(* releases the bus.                                                       *)
C22_WaitingRequestGetsBus ==
  board = "output" =>
    \A i \in DOMAIN reqs :
       reqs[i].state = "wait" =>
          (~isSendingNow \/ \E j \in DOMAIN reqs : reqs[j].state = "shift")

-----------------------------------------------------------------------------
(* Claims about the operations of the chain *)

(* C23: set(bitIndex, v) with bitIndex >= chipCount*8 fails with a range   *)
(* error and leaves the register bytes unchanged.                          *)
C23_OutOfRangeSetRejected ==
  [][(board = "chainOps" /\ nSets' # nSets /\ lastSet'.pin >= Len(values) * 8)
       => (lastSet'.result = "range" /\ values' = values)]_vars

(* C24: the register value driven by a chain has the length the chain was  *)
(* configured with in every reachable state: no set, shiftOut, clearOutput *)
(* or rotation step changes the length of IC74HC595.values.                *)
C24_LengthNeverChanges ==
  [][Len(values') = Len(values)]_vars

\* the event a shift log ends with
LastEvent(s) == s.log[Len(s.log)]

(* C25: a shiftOut ends by calling back exactly once, with an error if a   *)
(* byte transfer or a latch write failed; after a failed byte transfer no  *)
(* further byte is shifted and the latch is not written, and after a       *)
(* failed latch-HIGH write the latch-LOW write is not issued.              *)
C25_FailureCallsBackWithError ==
  (board = "chain" /\ sh.pc = "done") =>
    /\ sh.result \in {"ok", "error"}
    /\ sh.result = "ok" => LastEvent(sh) = EvLatchDone(0)
    /\ LastEvent(sh).ev = "byteDone" =>
          /\ sh.result = "error"
          /\ EventsOf(sh.log, "latch") = <<>>
          /\ Len(EventsOf(sh.log, "byte")) = Len(EventsOf(sh.log, "byteDone"))
    /\ LastEvent(sh) = EvLatchDone(1) =>
          /\ sh.result = "error"
          /\ EventsOf(sh.log, "latch") = <<EvLatch(1)>>

\* a step in which clearOutput is called
ClearCalled == clr' # clr /\ clr'.pc \in {"low", "shift"}

(* C28: clearOutput with a clear line configured writes that line LOW and  *)
(* then, once that write succeeded, HIGH, and shifts no data nor changes a *)
(* register byte; with none configured it sets every register byte to 0    *)
(* and performs exactly one shiftOut, of those zeros, whose outcome is its *)
(* own.                                                                    *)
C28_ClearOutput ==
  [][board = "chainOps" =>
       /\ (ClearCalled /\ pinsClear) =>
             /\ clr' = [NoClear EXCEPT !.pc = "low", !.log = <<EvClear(0)>>]
             /\ UNCHANGED <<ic595Array, sh>>
       /\ (ClearCalled /\ ~pinsClear) =>
             /\ clr'.shifts = 1
             /\ clr'.log = <<>>
             /\ Len(values') = Len(values)
             /\ \A i \in 1..Len(values') : values'[i] = 0
             /\ sh' = IC595_shiftOut(values')
       /\ (clr' # clr /\ clr'.pc = "done") =>
             IF pinsClear
               THEN /\ clr'.shifts = 0
                    /\ UNCHANGED <<ic595Array, sh>>
                    /\ clr'.result = "ok" =>
                          clr'.log = <<EvClear(0), EvClearDone(0),
                                       EvClear(1), EvClearDone(1)>>
                    /\ clr'.result # "ok" =>
                          clr'.log \in {<<EvClear(0), EvClearDone(0)>>,
                                        <<EvClear(0), EvClearDone(0),
                                          EvClear(1), EvClearDone(1)>>}
               ELSE /\ clr'.shifts = 1
                    /\ clr'.log = <<>>
                    /\ clr'.result = sh'.result
                    /\ sh'.pc = "done"]_vars

\* a software clear of a two-chip chain that held 165 in both chips has
\* shifted out its zeros and called back
C28_Witness ==
  /\ board = "chainOps"
  /\ ~pinsClear
  /\ clr.pc = "done"
  /\ clr.result = "ok"
  /\ values = <<0, 0>>
  /\ EventsOf(sh.log, "byte") = <<EvByte(1, 0), EvByte(0, 0)>>

-----------------------------------------------------------------------------
(* Claims about the enable line *)

(* C26: after a successful enableOutput() the level driven last onto the   *)
(* enable line is LOW, and after a successful disableOutput() it is HIGH,  *)
(* the very first call included; with no enable line configured both       *)
(* succeed without configuring or writing a pin.                           *)
C26_EnableDrivesLine ==
  board = "enable" =>
    \A k \in DOMAIN encalls :
       (encalls[k].pc = "done" /\ encalls[k].result = "ok") =>
          IF pinsEnable
            THEN encalls[k].level = {EnLevel(encalls[k].op)}
            ELSE oe = NoDrive

(* C27: over any sequence or interleaving of enableOutput and              *)
(* disableOutput calls the mode of the enable pin is configured exactly    *)
(* once, by the first call and before the line is driven, and never by a   *)
(* later call.                                                             *)
C27_ConfiguredOnce ==
  (board = "enable" /\ pinsEnable) =>
    /\ oe.modes <= 1
    /\ ~oe.modeAfterWrite
    /\ \A k \in DOMAIN encalls : encalls[k].configured <=> k = 1

(* C29: on the output board the enable line is written low only in the     *)
(* step in which a shiftOut of sendOutputs has completed successfully      *)
(* while the board was still disabled; the first flush that succeeds is    *)
(* followed at once by that write; and the chain is enabled by nothing but *)
(* the completion of that write.                                           *)
C29_EnabledAfterFlush ==
  [][board = "output" =>
       /\ \A i \in DOMAIN reqs :
            /\ (reqs'[i].state = "enable" /\ reqs[i].state # "enable") =>
                 /\ reqs[i].state = "shift"
                 /\ reqs'[i].sh.pc = "done"
                 /\ reqs'[i].sh.result = "ok"
                 /\ isDisabled /\ ~isDisabled'
            /\ (reqs[i].state = "shift" /\ reqs'[i].state = "done"
                  /\ reqs'[i].sh.result = "ok" /\ pinsEnable) => ~isDisabled
       /\ (enabled' = "true" /\ enabled # "true") =>
            /\ ~isDisabled
            /\ \E i \in DOMAIN reqs : reqs[i].state = "enable"
       /\ isDisabled =>
            /\ enabled # "true"
            /\ \A i \in DOMAIN reqs : reqs[i].state # "enable"
  ]_vars

\* the first flush has succeeded and the enable line has been written low
C29_Witness ==
  /\ board = "output"
  /\ pinsEnable
  /\ enabled = "true"
  /\ ~isDisabled
  /\ \E i \in DOMAIN reqs : reqs[i].state = "done" /\ reqs[i].sh.result = "ok"

(* C30: once an output board has initialized successfully, every output's  *)
(* published value is its configured initialValue (1 for 1, otherwise 0)   *)
(* and the register bit staged for it is that value, complemented for an   *)
(* inverse output.                                                         *)
C30_InitialValuesPublished ==
  board \in {"output", "outputProbe"} =>
    \A i \in DOMAIN reqs :
       (reqs[i].init /\ reqs[i].state = "done" /\ reqs[i].cb = "ok") =>
          \A k \in 1..Len(BoardOutputs) :
             LET v == IF BoardOutputs[k].initialValue # 0 THEN 1 ELSE 0 IN
               /\ attrs[BoardOutputs[k].name] = v
               /\ IC595_get(values, k - 1) = IF BoardOutputs[k].inverse THEN 1 - v ELSE v

-----------------------------------------------------------------------------
(* Claims about the timer, the flushes and the end of a tick *)

(* C31: the timer is armed in the step that completes a tick, once, unless *)
(* a stop was requested, and in no other step; whenever a timer is pending *)
(* no tick is in flight (currentInput is 0 and no read, switch or shift is *)
(* outstanding) and no second timer is pending.                            *)
C31_TimerArmedAtTickEnd ==
  [][/\ (timer' = "armed" /\ timer # "armed")
          => (tickEnd = "running" /\ tickEnd' = "complete" /\ ~cyanide)
     /\ (tickEnd = "running" /\ tickEnd' = "complete" /\ ~cyanide)
          => (timer' = "armed" /\ timer # "armed")
     /\ timer' = "armed" => (~TickInFlight' /\ currentInput' = 0)
     /\ orphans' = 0
  ]_vars

\* a tick has completed and its timer is pending
C31_Witness ==
  /\ timer = "armed"
  /\ tickEnd = "complete"
  /\ ~TickInFlight

(* C32: on the output board, whenever no write is in flight or waiting for *)
(* its retry, the register bit of every output equals its published value, *)
(* complemented for an inverse output.                                     *)
C32_RegisterMatchesPublished ==
  (board = "output" /\ \A i \in DOMAIN reqs : Vacant(reqs[i])) =>
     \A k \in 1..Len(BoardOutputs) :
        LET v == attrs[BoardOutputs[k].name] IN
          IC595_get(values, k - 1) = IF BoardOutputs[k].inverse THEN 1 - v ELSE v

ControlByte(b, p, l) ==
  /\ \A k \in 0..3 : BitOf(b, k) = BitOf(p, k)
  /\ BitOf(b, 4) = 0
  /\ BitOf(b, 5) = 0
  /\ BitOf(b, 6) = 1
  /\ BitOf(b, 7) = l

(* C34: in every shift of an I/O board rotation step the controller byte   *)
(* (chip 0) has bits 0-3 equal to the new currentInput, bits 4 and 5 equal *)
(* to 0, bit 6 equal to 1 and bit 7 equal to currentOutputLatch, and bit 7 *)
(* is 1 exactly when the shift carries the whole array because outputs     *)
(* were queued; the byte is so composed for each of the 16 positions.      *)
C34_ControlByte ==
  /\ \A p \in 0..MaxPosition, l \in {0, 1}, arr \in {<<0>>, <<255>>, <<77, 2>>} :
        ControlByte(IO_control(arr, p, l)[1], p, l)
  /\ [][(board = "io" /\ RotationStep) =>
          /\ ControlByte(values'[1], currentInput', currentOutputLatch')
          /\ \A i \in DOMAIN threads :
               threads'[i].pc = "shift" =>
                  /\ threads'[i].sh = IC595_shiftOut(values')
                  /\ BitOf(values'[1], 7) = 1 <=>
                       (outputQueued /\ Len(values') = num595chips)
                  /\ BitOf(values'[1], 7) = 0 <=> Len(values') = 1]_vars

\* a rotation step to position 1 is shifting the whole array with the latch bit up
C34_Witness ==
  /\ board = "io"
  /\ currentInput = 1
  /\ currentOutputLatch = 1
  /\ values[1] = 1 + 64 + 128
  /\ Len(values) = num595chips
  /\ \E i \in DOMAIN threads : threads[i].pc = "shift"

(* C35: every tick that starts eventually completes (currentInput back at  *)
(* 0, the thread of callbacks ended, the timer re-armed unless a stop was   *)
(* requested), provided every hardware call eventually calls back and      *)
(* whatever requests arrive during the tick.                               *)
C35_TickCompletes ==
  (HeartbeatBoard /\ tickEnd = "running")
     ~> (tickEnd = "complete" /\ currentInput = 0 /\ (cyanide \/ timer # "null" \/ released))

(* C36: on the output board isSendingNow is eventually cleared after every *)
(* sendOutputs that has set it, whether its bus calls succeed or fail.      *)
C36_BusyFlagCleared ==
  (board = "output" /\ isSendingNow) ~> ~isSendingNow

\* a shift of the whole array with the latch bit up is in progress
Flushing ==
  /\ valuesRef = "array"
  /\ currentOutputLatch = 1
  /\ IC595_get(values, 7) = 1
  /\ ~outputQueued
  /\ \E i \in DOMAIN threads : threads[i].pc = "shift"

(* C37: on the I/O board, once outputs are queued, a shift of the whole    *)
(* array with the latch bit up eventually starts, outputQueued being false *)
(* again as it does, unless release() is called.                           *)
C37_QueuedOutputsFlushed ==
  (board = "io" /\ outputQueued /\ ~released) ~> (Flushing \/ released)

-----------------------------------------------------------------------------
(* Further claims about the chain and the selector *)

(* C38: when clearOutput() completes successfully, with or without a clear *)
(* pin, get(b) is 0 for every bit b of the chain.                          *)
C38_ClearedInMemory ==
  [][(board = "chainOps" /\ clr' # clr /\ clr'.pc = "done" /\ clr'.result = "ok")
       => \A b \in 0..(Len(values') * 8 - 1) : IC595_get(values', b) = 0]_vars

\* the select lines whose write of the switch s has called back with an error
FailedLines(s) == {w[1] : w \in s.issued} \ (s.pending \cup s.okLines)

(* C39: if a select-line write of an accepted switch(p) fails, the         *)
(* callback is invoked with an error, once (the outcome, once reported,    *)
(* is not reported again by the writes that complete later), and the       *)
(* stored position keeps its previous value, in whatever order the writes  *)
(* complete.                                                               *)
C39_FailedSwitchReportsOnce ==
  [][board = "selector" =>
       /\ FailedLines(sw') # {} =>
            /\ sw'.result = "error"
            /\ sw'.didError
            /\ position' = sw'.posBefore
       /\ (sw.result # "none" /\ sw'.pending \subseteq sw.pending /\ sw'.pending # sw.pending)
            => (sw'.result = sw.result /\ position' = position)]_vars

\* a switch has ended after one of its writes failed and another succeeded
C39_Witness ==
  /\ board = "selector"
  /\ FailedLines(sw) # {}
  /\ sw.okLines # {}
  /\ sw.pending = {}
  /\ sw.result = "error"
  /\ position # sw.p

-----------------------------------------------------------------------------
(* The BeagleBone probe: definePins_control and read_control *)

\* the longest pin list handed to a control
MaxPins == 3

\* What a list entry refers to.  For definePins_control: a GPIO pin defined as
\* an input, a GPIO pin defined as an output with a value, or an id that is
\* not a BeagleBone pin.  For read_control: the name of a defined input pin,
\* of a defined output pin, or a name no pin was defined with.
PinKinds == {"in", "out", "unknown"}

PinLists == UNION {[1..n -> PinKinds] : n \in 0..MaxPins}

\* the entries of a list that are of one of the kinds
BB_pinsOf(pins, kinds) == {i \in DOMAIN pins : pins[i] \in kinds}

\* one error handed to the callback for each rejected entry: the return sits
\* inside the function passed to forEach, so the loop goes on
BB_rejections(pins, kinds) ==
  [i \in 1..Cardinality(BB_pinsOf(pins, kinds)) |-> "error"]

\* the entries the second loop handles before it dereferences an entry that
\* refers to no pin, which throws a TypeError
BB_beforeThrow(pins) ==
  IF BB_pinsOf(pins, {"unknown"}) = {}
    THEN Len(pins)
    ELSE (CHOOSE i \in BB_pinsOf(pins, {"unknown"}) :
            \A j \in BB_pinsOf(pins, {"unknown"}) : i <= j) - 1

\* read_control(pinNames, callback), emulationMode off
BB_read_control(c, pinNames) ==
  IF Len(pinNames) = 0
    THEN [c EXCEPT !.cbs = Append(@, "ok"), !.phase = "done"]
    ELSE [c EXCEPT !.cbs = @ \o BB_rejections(pinNames, {"unknown", "out"}),
                   !.invalid = @ \/ BB_pinsOf(pinNames, {"unknown", "out"}) # {},
                   !.threw = BB_pinsOf(pinNames, {"unknown"}) # {},
                   !.phase = "read",
                   !.reads = BB_beforeThrow(pinNames),
                   !.pending = BB_beforeThrow(pinNames),
                   !.numLeft = Len(pinNames),
                   !.didError = FALSE]

\* write_control(pinsToWrite, ...) as definePins_control calls it, and its
\* callback, which goes on to read_control(pinsToRead, ...)
BB_write_control(c) ==
  IF BB_pinsOf(c.pins, {"out"}) = {}
    THEN BB_read_control(c, SelectSeq(c.pins, LAMBDA k : k = "in"))
    ELSE [c EXCEPT !.phase = "write",
                   !.writes = Cardinality(BB_pinsOf(c.pins, {"out"})),
                   !.pending = Cardinality(BB_pinsOf(c.pins, {"out"})),
                   !.numLeft = Cardinality(BB_pinsOf(c.pins, {"out"})),
                   !.didError = FALSE]

\* setPinModes(pinsToSetMode, ...) and its callback, which goes on to
\* write_control
BB_setPinModes(c) ==
  IF Len(c.pins) = 0
    THEN BB_write_control(c)
    ELSE [c EXCEPT !.phase = "mode",
                   !.modes = Len(c.pins),
                   !.pending = Len(c.pins),
                   !.numLeft = Len(c.pins),
                   !.didError = FALSE]

\* definePins_control(pins, callback) up to its first wait
BB_definePins_control(pins) ==
  LET c == [NoPinCall EXCEPT
              !.op = "definePins",
              !.pins = pins,
              !.cbs = (IF Len(pins) = 0 THEN <<"ok">> ELSE <<>>)
                        \o BB_rejections(pins, {"unknown"}),
              !.invalid = BB_pinsOf(pins, {"unknown"}) # {}]
  IN  IF c.invalid
        THEN [c EXCEPT !.threw = TRUE, !.phase = "done"]
        ELSE BB_setPinModes(c)

\* whenDone(error) of setPinModes, write_control and read_control: one of
\* the parallel hardware calls of the current step has called back
BB_whenDone(c, ok) ==
  LET d == [c EXCEPT !.pending = @ - 1]
  IN  IF c.didError
        THEN d
        ELSE IF ~ok
          THEN [d EXCEPT !.didError = TRUE, !.cbs = Append(@, "error")]
          ELSE IF c.numLeft - 1 # 0
            THEN [d EXCEPT !.numLeft = @ - 1]
            ELSE IF c.phase = "mode"
              THEN BB_write_control([d EXCEPT !.numLeft = 0])
              ELSE IF c.phase = "write"
                THEN BB_read_control([d EXCEPT !.numLeft = 0],
                                     SelectSeq(c.pins, LAMBDA k : k = "in"))
                ELSE [d EXCEPT !.numLeft = 0, !.cbs = Append(@, "ok"), !.phase = "done"]

notPins == <<bb, lastBB, pinsClear, clr, oe, encalls, chainVars, selVars, enVars, obVars,
             hbVars, ioVars, histVars>>

InitBB ==
  /\ board = "beaglebone"
  /\ pinCall = NoPinCall
  /\ BbUnused
  /\ ClrUnused
  /\ EnOpUnused
  /\ ChainUnused
  /\ SelUnused
  /\ EnUnused
  /\ OBUnused
  /\ HbUnused

\* a monitor calls definePins_control once the control called before is over
BBDefinePins ==
  /\ board = "beaglebone"
  /\ pinCall.pending = 0
  /\ \E pins \in PinLists : pinCall' = BB_definePins_control(pins)
  /\ UNCHANGED <<board, notPins>>

\* a monitor calls read_control once the control called before is over
BBRead ==
  /\ board = "beaglebone"
  /\ pinCall.pending = 0
  /\ \E pinNames \in PinLists :
       pinCall' = BB_read_control([NoPinCall EXCEPT !.op = "read", !.pins = pinNames],
                                  pinNames)
  /\ UNCHANGED <<board, notPins>>

\* Bonescript calls back from a pinMode, digitalWrite or digitalRead
BBHwDone ==
  /\ board = "beaglebone"
  /\ pinCall.pending > 0
  /\ \E ok \in BOOLEAN : pinCall' = BB_whenDone(pinCall, ok)
  /\ UNCHANGED <<board, notPins>>

NextBB == BBDefinePins \/ BBRead \/ BBHwDone

SpecBB == InitBB /\ [][NextBB]_vars

-----------------------------------------------------------------------------
(* Claims about the controls of the BeagleBone probe *)

(* C40: definePins_control and read_control invoke their callback at most   *)
(* once while a call runs and exactly once by the time it is over, for an   *)
(* empty list and for a rejected pin id or pin name as well, and a call     *)
(* whose validation rejected an entry has set no pin mode, written no pin   *)
(* and read no pin.                                                         *)
C40_CallbackOnce ==
  (board = "beaglebone" /\ pinCall.op # "none") =>
    /\ Len(pinCall.cbs) <= 1
    /\ pinCall.pending = 0 => Len(pinCall.cbs) = 1
    /\ pinCall.invalid =>
         pinCall.modes = 0 /\ pinCall.writes = 0 /\ pinCall.reads = 0

====
